---- MODULE Spec2Model ----
(***************************************************************************)
(* A model of the tuner-daw transcription pipeline:                        *)
(*   - framesToNotes  (src/lib/notes/segment.ts)   : the note segmenter    *)
(*   - yinPitch, rms  (src/unnamed/part_001)        : the pitch estimator  *)
(*   - the frame scan of analyzeBlob (src/pages/index.tsx)                 *)
(*   - downloadMidi   (src/unnamed/part_000)        : the MIDI encoder     *)
(*   - renderNotesToWavBlob (src/lib/wav/render.ts) : the WAV renderer     *)
(*   - quantizeNotes and the handlers of the page (src/pages/index.tsx):   *)
(*     recording, analysis requests and playback, with their callbacks     *)
(*                                                                         *)
(* Real numbers are modelled exactly by scaled integers or by fractions    *)
(* <<numerator, denominator>>; 32/64-bit float rounding is not modelled.   *)
(* Each pure function is unrolled into the steps of its loops, and gets a  *)
(* specification of its own whose Init draws the inputs.                   *)
(***************************************************************************)
EXTENDS Integers, Sequences, FiniteSets, TLC

VARIABLES
  \* ---- framesToNotes ----
  segPc,      \* "off" | "map" | "scan" | "merge" | "done"
  frames,     \* input: sequence of PitchFrame [t, f0, conf, rms]
  opts,       \* input: [minRms, minConf, minNoteDur, mergeGap, pitchTolerance]
  q,          \* line 41: the quantised frames [t, midi, v]
  si,         \* the index of the loops at lines 55 and 92 (1-based)
  cur,        \* [midi, start, vel]: curMidi, curStart, curVel
  notes,      \* line 50
  merged,     \* line 90
  \* ---- yinPitch ----
  yinPc,      \* "off" | "start" | "cmndf" | "search" | "refine" | "done"
  yinIn,      \* input: [frame, sampleRate, fMin, fMax, threshold]
  yinD,       \* line 16: d[1..maxTau]
  yinCmndf,   \* line 26: cmndf[0..maxTau], fractions
  yinTau,     \* line 34: tauEstimate
  yinOut,     \* the YinResult [f0, confidence]
  \* ---- downloadMidi ----
  midiPc,     \* "off" | "build" | "sort" | "header" | "track" | "chunk" | "done"
  midiIn,     \* input: [notes, bpm]
  events,     \* line 16: sequence of Ev [t, data]
  bytes,      \* line 5
  track,      \* line 41
  lastTick,   \* line 51
  mi,         \* the index of the loop at line 52 (1-based)
  \* ---- the frame scan of analyzeBlob ----
  scanPc,     \* "off" | "loop" | "done"
  scanIn,     \* input: [samples, sampleRate, frameSize, hop, fMin, fMax]
  scanI,      \* line 224: i, the start of the window (0-based as in the code)
  outFrames,  \* line 221
  yinCalls,   \* the window starts i for which line 234 called yinPitch
  \* ---- tvlq, the delta-time encoder of downloadMidi ----
  vlqPc,      \* "off" | "start" | "loop" | "done"
  vlqN,       \* input: n
  vlqX,       \* part_000 line 45: x
  vlqOut,     \* part_000 line 44: out
  vlqTrack,   \* what tpush appended to the track (line 48)
  \* ---- renderNotesToWavBlob and audioBufferToWav ----
  wavPc,      \* "off" | "render" | "header" | "data" | "done"
  wavIn,      \* input: [notes, sampleRate]
  rendered,   \* render.ts line 41: [numberOfChannels, sampleRate, length, data]
  ab,         \* render.ts line 69: the bytes of the ArrayBuffer
  wavI,       \* render.ts line 87: i
  offset,     \* render.ts line 86
  \* ---- quantizeNotes ----
  quantPc,    \* "off" | "start" | "map" | "done"
  quantIn,    \* input: [notes, bpm, grid]
  quantI,     \* the index of notes.map at index.tsx line 588 (1-based)
  quantOut,   \* the returned list
  \* ---- the page (Home, src/pages/index.tsx) ----
  uiPc,       \* "off" | "on": whether the page is mounted
  mode,       \* index.tsx line 16: "idle" | "recording" | "analyzed"
  uiFrames,   \* line 25: frames, as the blob whose analysis they are, or NULL for []
  uiNotes,    \* line 26: notes, likewise
  recordedBlob, \* line 32: NULL or the blob of a recorder
  elapsed,    \* line 35, in ticks of the 100 ms interval
  mediaRecRef, \* line 29: a recorder, or 0 for null
  streamRef,  \* line 30: a stream, or 0 for null
  timerRef,   \* line 36: an interval, or 0 for null
  userMedia,  \* per startRecording call: "none" | "pending" | "settled"
  recorder,   \* per MediaRecorder: "none" | "recording" | "stopping" | "inactive"
  liveStreams, \* the streams whose tracks are live
  intervals,  \* the intervals of line 142 that have not been cleared
  analyses,   \* per analyzeBlob call: [blob, state], state "pending" | "done" | "failed"
  latest,     \* the last request: an analyzeBlob call, or 0 after clearRecording
  isPlaying,  \* line 42
  playingNodesRef, \* line 41: a set of nodes
  playOffset, \* line 44: playOffsetRef, in note lengths
  scheduledNodes, \* the nodes that inst.play created and nothing has stopped
  instrumentName, \* line 23
  instrumentRef, \* line 47: the name of the cached instrument, or NULL
  loadingInstrumentRef, \* line 48: a load, or 0 for null
  loads,      \* per Soundfont.instrument call: [name, state], state "pending" | "resolved" | "rejected"
  plays,      \* per play() call: [name, notes, load, closureIsPlaying, state]
  timeouts    \* the play() calls whose timeout of line 341 has not fired

segVars == <<segPc, frames, opts, q, si, cur, notes, merged>>
yinVars == <<yinPc, yinIn, yinD, yinCmndf, yinTau, yinOut>>

midiVars == <<midiPc, midiIn, events, bytes, track, lastTick, mi>>

scanVars == <<scanPc, scanIn, scanI, outFrames, yinCalls>>

vlqVars == <<vlqPc, vlqN, vlqX, vlqOut, vlqTrack>>

wavVars == <<wavPc, wavIn, rendered, ab, wavI, offset>>

quantVars == <<quantPc, quantIn, quantI, quantOut>>

uiVars == <<uiPc, mode, uiFrames, uiNotes, recordedBlob, elapsed, mediaRecRef, streamRef, timerRef, userMedia, recorder, liveStreams, intervals, analyses, latest, isPlaying, playingNodesRef, playOffset, scheduledNodes, instrumentName, instrumentRef, loadingInstrumentRef, loads, plays, timeouts>>

vars == <<segVars, yinVars, midiVars, scanVars, vlqVars, wavVars, quantVars, uiVars>>

\* what each component leaves alone
nonSegVars == <<yinVars, midiVars, scanVars, vlqVars, wavVars, quantVars, uiVars>>
nonYinVars == <<segVars, midiVars, scanVars, vlqVars, wavVars, quantVars, uiVars>>
nonMidiVars == <<segVars, yinVars, scanVars, vlqVars, wavVars, quantVars, uiVars>>
nonScanVars == <<segVars, yinVars, midiVars, vlqVars, wavVars, quantVars, uiVars>>
nonVlqVars == <<segVars, yinVars, midiVars, scanVars, wavVars, quantVars, uiVars>>
nonWavVars == <<segVars, yinVars, midiVars, scanVars, vlqVars, quantVars, uiVars>>
nonQuantVars == <<segVars, yinVars, midiVars, scanVars, vlqVars, wavVars, uiVars>>
nonUiVars == <<segVars, yinVars, midiVars, scanVars, vlqVars, wavVars, quantVars>>

(***************************************************************************)
(* Helpers                                                                 *)
(***************************************************************************)
\* JavaScript's null / an absent value; a present value x is <<x>>.
NULL == <<>>
Some(x) == <<x>>
Val(o) == o[1]

Abs(x) == IF x < 0 THEN -x ELSE x
Max(a, b) == IF a >= b THEN a ELSE b
Min(a, b) == IF a <= b THEN a ELSE b
Last(s) == s[Len(s)]

\* floor(a / b) for b > 0 and any integer a.
FloorDiv(a, b) == a \div b

\* Math.round(a / b) for b > 0: the nearest integer, halves rounded up.
RoundDiv(a, b) == FloorDiv(2 * a + b, 2 * b)

(***************************************************************************)
(* Units of the segmenter model                                            *)
(*   times      : integer multiples of one time quantum                    *)
(*   f0         : integer hertz                                            *)
(*   rms        : thousandths of full scale                                *)
(*   conf       : hundredths                                               *)
(*   tolerance  : half semitones                                           *)
(***************************************************************************)
RmsDen == 1000
TolDen == 2

(***************************************************************************)
(* hzToMidi followed by Math.round (segment.ts lines 15-17, 44-45).        *)
(* round(69 + 12*log2(f/440)) >= k  iff  f >= 440 * 2^((k - 69.5)/12).     *)
(* These boundaries are irrational, so for an integer f the comparison     *)
(* with the boundary is the comparison with its floor.  SemitoneFloor[r]   *)
(* is floor(440 * 2^((TopOctave + r - 1 - 69.5)/12)), the boundaries of    *)
(* the octave of MIDI numbers 132..143; lower octaves are reached by       *)
(* doubling f.  Defined for 1 <= f <= 32533.                               *)
(***************************************************************************)
TopOctave == 132
SemitoneFloor ==
  <<16267, 17234, 18259, 19345, 20495, 21714,
    23005, 24373, 25822, 27358, 28985, 30708>>

RECURSIVE OctavesBelow(_)
OctavesBelow(f) == IF f > SemitoneFloor[1] THEN 0 ELSE 1 + OctavesBelow(2 * f)

RECURSIVE Doubled(_, _)
Doubled(f, n) == IF n = 0 THEN f ELSE Doubled(2 * f, n - 1)

hzToMidiRound(f) ==
  LET n == OctavesBelow(f)
      g == Doubled(f, n)
      r == Cardinality({k \in 1..12 : g > SemitoneFloor[k]})
  IN  TopOctave + (r - 1) - 12 * n

clamp01Num(x, den) == Max(0, Min(den, x))

\* A slip: the energy is scaled to a velocity without either clamp.
FrameVelocityUnclamped(rms, minRms) ==
  RoundDiv(20 * (RmsDen \div 5) + 107 * (rms - minRms), RmsDen \div 5)

\* line 46: max(1, min(127, round(20 + 107 * clamp01((rms - minRms) / 0.2))))
\* with rms and minRms in thousandths: 0.2 is 200 thousandths.
FrameVelocity(rms, minRms) ==
  LET c == clamp01Num(rms - minRms, RmsDen \div 5)
  IN  Max(1, Min(127, RoundDiv(20 * (RmsDen \div 5) + 107 * c, RmsDen \div 5)))

\* lines 41-48: one element of q
QuantizeFrame(fr, o) ==
  LET usable == fr.f0 # NULL /\ fr.rms >= o.minRms /\ fr.conf >= o.minConf
  IN  IF ~usable
        THEN [t |-> fr.t, midi |-> NULL, v |-> 0]
        ELSE [t |-> fr.t,
              midi |-> Some(hzToMidiRound(Val(fr.f0))),
              v |-> FrameVelocity(fr.rms, o.minRms)]

Note(s, e, m, v) == [start |-> s, end |-> e, midi |-> m, velocity |-> v]

\* lines 69 and 76: push the current note when it is long enough
PushIfLong(ns, c, end, o) ==
  IF end - c.start >= o.minNoteDur
    THEN Append(ns, Note(c.start, end, Val(c.midi), c.vel))
    ELSE ns

\* A slip: the new note keeps the old note's start (curStart not reassigned).
ScanStepKeepStart(st, fr, o) ==
  IF st.cur.midi = NULL
    THEN IF fr.midi # NULL
           THEN [st EXCEPT !.cur = [midi |-> fr.midi, start |-> fr.t, vel |-> fr.v]]
           ELSE st
    ELSE IF fr.midi = NULL
      THEN [cur |-> [st.cur EXCEPT !.midi = NULL],
            notes |-> PushIfLong(st.notes, st.cur, fr.t, o)]
      ELSE IF TolDen * Abs(Val(fr.midi) - Val(st.cur.midi)) > o.pitchTolerance
        THEN [cur |-> [midi |-> fr.midi, start |-> st.cur.start, vel |-> fr.v],
              notes |-> PushIfLong(st.notes, st.cur, fr.t, o)]
        ELSE [st EXCEPT !.cur.vel = RoundDiv(8 * st.cur.vel + 2 * fr.v, 10)]

\* A slip: within tolerance the note's pitch follows the frame's pitch.
ScanStepFollowPitch(st, fr, o) ==
  IF st.cur.midi = NULL
    THEN IF fr.midi # NULL
           THEN [st EXCEPT !.cur = [midi |-> fr.midi, start |-> fr.t, vel |-> fr.v]]
           ELSE st
    ELSE IF fr.midi = NULL
      THEN [cur |-> [st.cur EXCEPT !.midi = NULL],
            notes |-> PushIfLong(st.notes, st.cur, fr.t, o)]
      ELSE IF TolDen * Abs(Val(fr.midi) - Val(st.cur.midi)) > o.pitchTolerance
        THEN [cur |-> [midi |-> fr.midi, start |-> fr.t, vel |-> fr.v],
              notes |-> PushIfLong(st.notes, st.cur, fr.t, o)]
        ELSE [st EXCEPT !.cur.vel = RoundDiv(8 * st.cur.vel + 2 * fr.v, 10),
                        !.cur.midi = fr.midi]

\* lines 56-82: the body of the scan loop, on st = [cur, notes]
ScanStep(st, fr, o) ==
  IF st.cur.midi = NULL
    THEN IF fr.midi # NULL
           THEN [st EXCEPT !.cur = [midi |-> fr.midi, start |-> fr.t, vel |-> fr.v]]
           ELSE st
    ELSE IF fr.midi = NULL
      THEN [cur |-> [st.cur EXCEPT !.midi = NULL],
            notes |-> PushIfLong(st.notes, st.cur, fr.t, o)]
      ELSE IF TolDen * Abs(Val(fr.midi) - Val(st.cur.midi)) > o.pitchTolerance
        THEN [cur |-> [midi |-> fr.midi, start |-> fr.t, vel |-> fr.v],
              notes |-> PushIfLong(st.notes, st.cur, fr.t, o)]
        ELSE [st EXCEPT !.cur.vel = RoundDiv(8 * st.cur.vel + 2 * fr.v, 10)]

\* lines 85-88: end of stream
CloseStream(st, qs, o) ==
  LET lastT == IF Len(qs) > 0 THEN Last(qs).t ELSE 0
  IN  IF st.cur.midi # NULL
        THEN PushIfLong(st.notes, st.cur, lastT, o)
        ELSE st.notes

\* line 91: Array.prototype.sort with (a,b) => a.start - b.start is stable:
\* insert each note after the notes that do not start later.
RECURSIVE InsertByStart(_, _)
InsertByStart(s, n) ==
  IF s = <<>> THEN <<n>>
  ELSE IF Last(s).start <= n.start THEN Append(s, n)
  ELSE Append(InsertByStart(SubSeq(s, 1, Len(s) - 1), n), Last(s))

RECURSIVE SortByStart(_)
SortByStart(s) ==
  IF s = <<>> THEN <<>>
  ELSE InsertByStart(SortByStart(SubSeq(s, 1, Len(s) - 1)), Last(s))

\* A slip: "<" for "<=" in the gap test.
MergeStepStrictGap(ms, n, o) ==
  IF ms # <<>> /\ Last(ms).midi = n.midi /\ n.start - Last(ms).end < o.mergeGap
    THEN [ms EXCEPT ![Len(ms)] =
            [@ EXCEPT !.end = n.end,
                      !.velocity = RoundDiv(@ + n.velocity, 2)]]
    ELSE Append(ms, n)

\* A slip: a merge averages the velocity but leaves the end where it was.
MergeStepKeepEnd(ms, n, o) ==
  IF ms # <<>> /\ Last(ms).midi = n.midi /\ n.start - Last(ms).end <= o.mergeGap
    THEN [ms EXCEPT ![Len(ms)] =
            [@ EXCEPT !.velocity = RoundDiv(@ + n.velocity, 2)]]
    ELSE Append(ms, n)

\* lines 93-99: the body of the merge loop
MergeStep(ms, n, o) ==
  IF ms # <<>> /\ Last(ms).midi = n.midi /\ n.start - Last(ms).end <= o.mergeGap
    THEN [ms EXCEPT ![Len(ms)] =
            [@ EXCEPT !.end = n.end,
                      !.velocity = RoundDiv(@ + n.velocity, 2)]]
    ELSE Append(ms, n)

\* lines 50-53: the scan's state before the first frame
ScanStart == [cur |-> [midi |-> NULL, start |-> 0, vel |-> 64], notes |-> <<>>]

\* lines 55-83: the scan loop from the k-th frame on
RECURSIVE ScanAll(_, _, _, _)
ScanAll(st, qs, k, o) ==
  IF k > Len(qs) THEN st ELSE ScanAll(ScanStep(st, qs[k], o), qs, k + 1, o)

\* lines 92-100: the merge loop from the k-th note on
RECURSIVE MergeAll(_, _, _, _)
MergeAll(ms, ns, k, o) ==
  IF k > Len(ns) THEN ms ELSE MergeAll(MergeStep(ms, ns[k], o), ns, k + 1, o)

\* lines 26-102, as one function
framesToNotes(fs, o) ==
  LET qs == [k \in 1..Len(fs) |-> QuantizeFrame(fs[k], o)]
      st == ScanAll(ScanStart, qs, 1, o)
  IN  MergeAll(<<>>, SortByStart(CloseStream(st, qs, o)), 1, o)

(***************************************************************************)
(* yinPitch (src/unnamed/part_001).  Samples are integers; d and the       *)
(* running sum are then integers, and cmndf, confidence and f0 are exact   *)
(* fractions <<numerator, denominator>> in lowest terms with a             *)
(* non-negative denominator (denominator 0: a division by zero).           *)
(***************************************************************************)
\* the greatest common divisor of two non-negative integers
RECURSIVE GcdNat(_, _)
GcdNat(a, b) == IF b = 0 THEN a ELSE GcdNat(b, a % b)

Gcd(a, b) == GcdNat(Abs(a), Abs(b))

Frac(n, m) ==
  LET g == Gcd(n, m)
  IN  IF g = 0 THEN <<0, 0>>
      ELSE IF m < 0 THEN <<(-n) \div g, (-m) \div g>>
      ELSE <<n \div g, m \div g>>

FLess(a, b) == a[1] * b[2] < b[1] * a[2]
FZero == <<0, 1>>
FOne == <<1, 1>>

\* the sum of f[1..n]
RECURSIVE SumTo(_, _)
SumTo(f, n) == IF n = 0 THEN 0 ELSE SumTo(f, n - 1) + f[n]

\* lines 11-12
MaxTau(sampleRate, fMin) == sampleRate \div fMin
MinTau(sampleRate, fMax) == sampleRate \div fMax

\* lines 18-23: the squared-difference function at lag tau
Difference(frame, tau) ==
  LET N == Len(frame)
      sq == [i \in 1..(N - tau) |->
               (frame[i] - frame[i + tau]) * (frame[i] - frame[i + tau])]
  IN  SumTo(sq, N - tau)

\* the epsilon of line 31 is 1e-9
EpsInverse == 1000000000

\* lines 30-31: cmndf[tau] = d[tau] * (tau / (runningSum || 1e-9))
CmndfAt(d, tau) ==
  LET runningSum == SumTo(d, tau)
  IN  IF runningSum # 0
        THEN Frac(d[tau] * tau, runningSum)
        ELSE Frac(d[tau] * tau * EpsInverse, 1)

\* lines 26-32
Cmndf(d, maxTau) ==
  [tau \in 0..maxTau |-> IF tau = 0 THEN FOne ELSE CmndfAt(d, tau)]

\* A slip: the descent also walks along equal values (<= for <).
RECURSIVE DescendNonStrict(_, _, _)
DescendNonStrict(c, tau, maxTau) ==
  IF tau + 1 <= maxTau /\ ~FLess(c[tau], c[tau + 1])
    THEN DescendNonStrict(c, tau + 1, maxTau)
    ELSE tau

\* line 37: descend while the next value is strictly smaller
RECURSIVE Descend(_, _, _)
Descend(c, tau, maxTau) ==
  IF tau + 1 <= maxTau /\ FLess(c[tau + 1], c[tau])
    THEN Descend(c, tau + 1, maxTau)
    ELSE tau

\* A slip: a lag whose cmndf equals the threshold is accepted (<= for <).
RECURSIVE SearchFromInclusive(_, _, _, _)
SearchFromInclusive(c, tau, maxTau, threshold) ==
  IF tau > maxTau THEN NULL
  ELSE IF ~FLess(threshold, c[tau]) THEN Some(Descend(c, tau, maxTau))
  ELSE SearchFromInclusive(c, tau + 1, maxTau, threshold)

\* lines 34-41: tauEstimate, or NULL
RECURSIVE SearchFrom(_, _, _, _)
SearchFrom(c, tau, maxTau, threshold) ==
  IF tau > maxTau THEN NULL
  ELSE IF FLess(c[tau], threshold) THEN Some(Descend(c, tau, maxTau))
  ELSE SearchFrom(c, tau + 1, maxTau, threshold)

\* lines 45-54: parabolic refinement, f0 and confidence.  With s0, s1, s2
\* over the common denominator m0*m1*m2 the quotient (s2-s0)/(2*denom) is
\* p / (2*dn), so betterTau = (2*dn*tau + p) / (2*dn).
Refine(c, tau, maxTau, sampleRate) ==
  LET x0 == Max(1, tau - 1)
      x2 == Min(maxTau, tau + 1)
      s0 == c[x0]
      s1 == c[tau]
      s2 == c[x2]
      a0 == s0[1] * s1[2] * s2[2]
      a1 == s1[1] * s0[2] * s2[2]
      a2 == s2[1] * s0[2] * s1[2]
      dn == 2 * a1 - a2 - a0
      p  == a2 - a0
      betterTau == IF dn # 0 THEN Frac(2 * dn * tau + p, 2 * dn)
                             ELSE Frac(tau, 1)
      conf == Frac(s1[2] - s1[1], s1[2])
  IN  [f0 |-> Some(Frac(sampleRate * betterTau[2], betterTau[1])),
       confidence |->
         IF FLess(conf, FZero) THEN FZero
         ELSE IF FLess(FOne, conf) THEN FOne ELSE conf]

NoPitch == [f0 |-> NULL, confidence |-> FZero]

\* lines 3-55, as one function
yinPitch(frame, sampleRate, fMin, fMax, threshold) ==
  LET maxTau == MaxTau(sampleRate, fMin)
      minTau == MinTau(sampleRate, fMax)
  IN  IF maxTau >= Len(frame) THEN NoPitch
      ELSE LET d == [tau \in 1..maxTau |-> Difference(frame, tau)]
               c == Cmndf(d, maxTau)
               est == SearchFrom(c, minTau, maxTau, threshold)
           IN  IF est = NULL THEN NoPitch
               ELSE Refine(c, Val(est), maxTau, sampleRate)

(***************************************************************************)
(* downloadMidi (src/unnamed/part_000).  Note times are integer multiples  *)
(* of 1/TimeDen second; bpm is an integer; ticks, bytes and the tempo are  *)
(* integers as in the code.  Ticks stay below 2^31.                        *)
(***************************************************************************)
TimeDen == 1000
ppq == 480

\* line 7: Math.round(60_000_000 / bpm)
UsPerQuarter(bpm) == RoundDiv(60000000, bpm)

\* line 13: Math.round(sec * (bpm / 60) * ppq), sec = n / TimeDen
secToTicks(n, bpm) == RoundDiv(n * bpm * ppq, 60 * TimeDen)

\* line 9: x & 0xff
Byte(x) == x % 256

\* line 10: the char codes of an ASCII string
MThd == <<77, 84, 104, 100>>
MTrk == <<77, 84, 114, 107>>

\* line 11
U32(n) ==
  <<Byte(n \div 16777216), Byte(n \div 65536), Byte(n \div 256), Byte(n)>>

\* lines 18-21
TempoEvent(bpm) ==
  LET us == UsPerQuarter(bpm)
  IN  [t |-> 0,
       data |-> <<255, 81, 3, Byte(us \div 65536), Byte(us \div 256), Byte(us)>>]

\* line 22
ProgramEvent == [t |-> 0, data |-> <<192, 0>>]

\* lines 25-28
NoteOn(n, bpm) ==
  [t |-> secToTicks(n.start, bpm),
   data |-> <<144, n.midi % 128, n.velocity % 128>>]
NoteOff(n, bpm) ==
  [t |-> secToTicks(n.end, bpm), data |-> <<128, n.midi % 128, 0>>]

\* lines 24-29
RECURSIVE NoteEvents(_, _)
NoteEvents(ns, bpm) ==
  IF ns = <<>> THEN <<>>
  ELSE <<NoteOn(Head(ns), bpm), NoteOff(Head(ns), bpm)>>
         \o NoteEvents(Tail(ns), bpm)

\* lines 18-29
BuildEvents(ns, bpm) ==
  <<TempoEvent(bpm), ProgramEvent>> \o NoteEvents(ns, bpm)

\* A slip: the events are written in insertion order (no sort).
SortByTickMissing(evs) == evs

\* A slip: an event is put before the events of its own tick (ties reversed).
RECURSIVE InsertByTickBeforeEqual(_, _)
InsertByTickBeforeEqual(s, e) ==
  IF s = <<>> THEN <<e>>
  ELSE IF Last(s).t < e.t THEN Append(s, e)
  ELSE Append(InsertByTickBeforeEqual(SubSeq(s, 1, Len(s) - 1), e), Last(s))

\* line 31: a stable sort by t
RECURSIVE InsertByTick(_, _)
InsertByTick(s, e) ==
  IF s = <<>> THEN <<e>>
  ELSE IF Last(s).t <= e.t THEN Append(s, e)
  ELSE Append(InsertByTick(SubSeq(s, 1, Len(s) - 1), e), Last(s))

RECURSIVE SortByTickRec(_)
SortByTickRec(evs) ==
  IF evs = <<>> THEN <<>>
  ELSE InsertByTick(SortByTickRec(SubSeq(evs, 1, Len(evs) - 1)), Last(evs))

SortByTick(evs) == SortByTickRec(evs)

\* lines 34-38
Header ==
  MThd \o U32(6) \o <<0, 1>> \o <<0, 1>> \o <<Byte(ppq \div 256), Byte(ppq)>>

\* line 47: the groups above the lowest one, most significant first
RECURSIVE VlqHigh(_)
VlqHigh(x) ==
  IF x > 0 THEN VlqHigh(x \div 128) \o <<(x % 128) + 128>> ELSE <<>>

\* A slip: the continuation bit is left out (x & 0x7f without | 0x80).
RECURSIVE VlqHighUnflagged(_)
VlqHighUnflagged(x) ==
  IF x > 0 THEN VlqHighUnflagged(x \div 128) \o <<x % 128>> ELSE <<>>

tvlqNoContinuation(n) == VlqHighUnflagged(n \div 128) \o <<n % 128>>

\* lines 43-49, for 0 <= n < 2^31
tvlq(n) == VlqHigh(n \div 128) \o <<n % 128>>

\* lines 53-55: one event appended to the track
WriteEvent(tr, ev, last) == tr \o tvlq(Max(0, ev.t - last)) \o ev.data

\* A slip: the end-of-track event is written without its delta-time.
EndOfTrackNoDelta(tr) == tr \o <<255, 47, 0>>

\* lines 59-60
EndOfTrack(tr) == tr \o tvlq(0) \o <<255, 47, 0>>

\* lines 62-64
TrackChunk(tr) == MTrk \o U32(Len(tr)) \o tr

(***************************************************************************)
(* The frame scan of analyzeBlob (src/pages/index.tsx lines 216-238).      *)
(* A sample v stands for the amplitude v / SampleScale; the energy of a    *)
(* window is kept as the square of its rms, a fraction.                    *)
(***************************************************************************)
SampleScale == 70

\* part_001 lines 57-61, squared: mean(sample^2)
rmsSquared(frame) ==
  LET sq == [k \in 1..Len(frame) |-> frame[k] * frame[k]]
  IN  Frac(SumTo(sq, Len(frame)), Len(frame) * SampleScale * SampleScale)

\* index.tsx line 222: silenceGate = 0.010, and its square
SilenceGate == <<1, 100>>
SilenceGateSquared == <<1, 10000>>
\* index.tsx line 234: the threshold passed to yinPitch
ScanThreshold == <<12, 100>>

\* line 235: f0 && isFinite(f0) ? f0 : null
FiniteNonZero(f0) ==
  IF f0 # NULL /\ Val(f0)[1] # 0 /\ Val(f0)[2] # 0 THEN f0 ELSE NULL

\* A slip the other way: the loop also runs for a window that overruns.
ScanContinuesPastEnd(i, frameSize, n) == i + frameSize <= n + 1

\* line 224: the loop condition i + frameSize < samples.length
ScanContinues(i, frameSize, n) == i + frameSize < n

\* A slip: the gate never closes, every window goes to the estimator.
BelowGateNever(e) == FALSE

\* line 229: e < silenceGate, on the squares
BelowGate(e) == FLess(e, SilenceGateSquared)

\* line 225: samples.subarray(i, i + frameSize)
WindowAt(in, i) == SubSeq(in.samples, i + 1, i + in.frameSize)

\* lines 225-235: the frame of the window that starts at i
ScanFrame(in, i) ==
  LET frame == WindowAt(in, i)
      t == Frac(i, in.sampleRate)
      e == rmsSquared(frame)
  IN  IF BelowGate(e)
        THEN [t |-> t, f0 |-> NULL, conf |-> FZero, rms2 |-> e]
        ELSE LET y == yinPitch(frame, in.sampleRate, in.fMin, in.fMax,
                               ScanThreshold)
             IN  [t |-> t, f0 |-> FiniteNonZero(y.f0),
                  conf |-> y.confidence, rms2 |-> e]

(***************************************************************************)
(* renderNotesToWavBlob and audioBufferToWav (src/lib/wav/render.ts).      *)
(* Note times are multiples of 1/TimeDen second.  A sample s stands for    *)
(* the amplitude s / SampleDen.  What the OfflineAudioContext renders is   *)
(* the browser's business: any buffer of the requested shape.              *)
(***************************************************************************)
SampleDen == 10

\* floor and ceiling of a / b for b > 0
CeilDiv(a, b) == -((-a) \div b)
\* the integer part of a / b (ToInt16 drops the fraction), b > 0
TruncDiv(a, b) == IF a >= 0 THEN a \div b ELSE CeilDiv(a, b)

RECURSIVE MaxEnd(_, _)
MaxEnd(ns, m) ==
  IF ns = <<>> THEN m ELSE MaxEnd(Tail(ns), Max(m, Head(ns).end))

\* line 21: Math.max(1, ...notes.map(n => n.end)) + 0.5, in 1/(2*TimeDen) s
WavDuration(ns) == 2 * MaxEnd(ns, TimeDen) + TimeDen

\* line 22: Math.ceil(duration * sampleRate)
WavFrames(ns, sampleRate) == CeilDiv(WavDuration(ns) * sampleRate, 2 * TimeDen)

\* DataView.setUint32 / setUint16 / setInt16 with littleEndian = true
U32LE(n) ==
  <<n % 256, (n \div 256) % 256, (n \div 65536) % 256, (n \div 16777216) % 256>>
U16LE(n) == <<n % 256, (n \div 256) % 256>>
ToInt16(v) == ((v + 32768) % 65536) - 32768
Int16LE(v) == U16LE(ToInt16(v) % 65536)

\* lines 99-101: the char codes of "RIFF", "WAVE", "fmt " and "data"
RIFF == <<82, 73, 70, 70>>
WAVE == <<87, 65, 86, 69>>
FmtTag == <<102, 109, 116, 32>>
DataTag == <<100, 97, 116, 97>>

\* bytes written at the 0-based position pos of a buffer
WriteAt(buf, pos, bs) ==
  [k \in 1..Len(buf) |->
     IF k > pos /\ k <= pos + Len(bs) THEN bs[k - pos] ELSE buf[k]]

\* line 64
BytesPerSample == 2

\* A slip: the data size counts frames, not bytes.
DataSizeInFrames(numFrames, blockAlign) == numFrames

\* line 67
DataSize(numFrames, blockAlign) == numFrames * blockAlign

\* lines 60-84: the buffer with its header written
WavHeader(buffer) ==
  LET numCh == buffer.numberOfChannels
      sampleRate == buffer.sampleRate
      numFrames == buffer.length
      blockAlign == numCh * BytesPerSample
      byteRate == sampleRate * blockAlign
      dataSize == DataSize(numFrames, blockAlign)
      zero == [k \in 1..(44 + dataSize) |-> 0]
  IN  WriteAt(zero, 0,
        RIFF \o U32LE(36 + dataSize) \o WAVE \o FmtTag \o U32LE(16)
          \o U16LE(1) \o U16LE(numCh) \o U32LE(sampleRate) \o U32LE(byteRate)
          \o U16LE(blockAlign) \o U16LE(16) \o DataTag \o U32LE(dataSize))

\* A slip: the sample is scaled without being clamped.
ClampMissing(s) == s

\* line 90: Math.max(-1, Math.min(1, s))
Clamp1(s) == Max(-SampleDen, Min(SampleDen, s))

\* line 91: the integer part of clamped < 0 ? clamped * 0x8000 :
\* clamped * 0x7fff, which setInt16 then reduces to 16 bits
Pcm16(s) ==
  LET clamped == Clamp1(s)
  IN  IF clamped < 0 THEN TruncDiv(clamped * 32768, SampleDen)
                     ELSE TruncDiv(clamped * 32767, SampleDen)

(***************************************************************************)
(* Each specification runs one component; the others stay idle.            *)
(***************************************************************************)
SegIdle ==
  /\ segPc = "off" /\ frames = <<>> /\ opts = <<>> /\ q = <<>> /\ si = 0
  /\ cur = <<>> /\ notes = <<>> /\ merged = <<>>

YinIdle ==
  /\ yinPc = "off" /\ yinIn = <<>> /\ yinD = <<>> /\ yinCmndf = <<>>
  /\ yinTau = NULL /\ yinOut = <<>>

MidiIdle ==
  /\ midiPc = "off" /\ midiIn = <<>> /\ events = <<>> /\ bytes = <<>>
  /\ track = <<>> /\ lastTick = 0 /\ mi = 0

ScanIdle ==
  /\ scanPc = "off" /\ scanIn = <<>> /\ scanI = 0 /\ outFrames = <<>>
  /\ yinCalls = {}

VlqIdle ==
  /\ vlqPc = "off" /\ vlqN = 0 /\ vlqX = 0 /\ vlqOut = <<>> /\ vlqTrack = <<>>

WavIdle ==
  /\ wavPc = "off" /\ wavIn = <<>> /\ rendered = <<>> /\ ab = <<>>
  /\ wavI = 0 /\ offset = 0

QuantIdle ==
  /\ quantPc = "off" /\ quantIn = <<>> /\ quantI = 0 /\ quantOut = <<>>

UiIdle ==
  /\ uiPc = "off" /\ mode = "idle" /\ uiFrames = <<>> /\ uiNotes = <<>>
  /\ recordedBlob = <<>> /\ elapsed = 0
  /\ mediaRecRef = 0 /\ streamRef = 0 /\ timerRef = 0
  /\ userMedia = <<>> /\ recorder = <<>> /\ liveStreams = {} /\ intervals = {}
  /\ analyses = <<>> /\ latest = 0
  /\ isPlaying = FALSE /\ playingNodesRef = {} /\ playOffset = 0
  /\ scheduledNodes = {} /\ instrumentName = "" /\ instrumentRef = <<>>
  /\ loadingInstrumentRef = 0 /\ loads = <<>> /\ plays = <<>> /\ timeouts = {}

\* the components that a specification of one component leaves idle
OthersIdle(own) ==
  /\ IF own = "seg" THEN TRUE ELSE SegIdle
  /\ IF own = "yin" THEN TRUE ELSE YinIdle
  /\ IF own = "midi" THEN TRUE ELSE MidiIdle
  /\ IF own = "scan" THEN TRUE ELSE ScanIdle
  /\ IF own = "vlq" THEN TRUE ELSE VlqIdle
  /\ IF own = "wav" THEN TRUE ELSE WavIdle
  /\ IF own = "quant" THEN TRUE ELSE QuantIdle
  /\ IF own = "ui" THEN TRUE ELSE UiIdle

(***************************************************************************)
(* Inputs of the segmenter                                                 *)
(***************************************************************************)
MaxFrames == 4

\* The caller's options (index.tsx lines 242-246); minNoteDur and mergeGap
\* are drawn from small sets of time quanta.
CallerMinRms == 12
CallerMinConf == 22
CallerPitchTolerance == 1
\* the caller's half semitone, and a whole semitone
PitchToleranceSet == {CallerPitchTolerance, 2}
MinNoteDurSet == {0, 1, 2, 3}
MergeGapSet == {0, 1}
\* the spacing of the frames, in time quanta
HopSet == {1}

\* What a frame can carry: [f0, conf, rms].
FrameKinds ==
  { [f0 |-> NULL,        conf |-> 0,  rms |-> 5],     \* gated as silent
    [f0 |-> Some(440),   conf |-> 95, rms |-> 60],    \* A4
    [f0 |-> Some(466),   conf |-> 90, rms |-> 150],   \* A#4
    [f0 |-> Some(494),   conf |-> 90, rms |-> 250],   \* B4
    [f0 |-> Some(440),   conf |-> 10, rms |-> 60],    \* below minConf
    [f0 |-> Some(4),     conf |-> 95, rms |-> 60],    \* below MIDI 0
    [f0 |-> Some(20000), conf |-> 95, rms |-> 300] }  \* above MIDI 127

FramesOf(kinds, hop) ==
  [k \in 1..Len(kinds) |->
     [t |-> (k - 1) * hop, f0 |-> kinds[k].f0,
      conf |-> kinds[k].conf, rms |-> kinds[k].rms]]

KindSeqs == UNION {[1..n -> FrameKinds] : n \in 0..MaxFrames}

SegInit ==
  /\ OthersIdle("seg")
  /\ segPc = "map"
  /\ \E ks \in KindSeqs, hop \in HopSet : frames = FramesOf(ks, hop)
  /\ \E d \in MinNoteDurSet, g \in MergeGapSet, tol \in PitchToleranceSet :
       opts = [minRms |-> CallerMinRms, minConf |-> CallerMinConf,
               minNoteDur |-> d, mergeGap |-> g, pitchTolerance |-> tol]
  /\ q = <<>> /\ si = 0
  /\ cur = ScanStart.cur
  /\ notes = <<>> /\ merged = <<>>

(***************************************************************************)
(* framesToNotes, step by step                                             *)
(***************************************************************************)
\* line 41
SegQuantize ==
  /\ segPc = "map"
  /\ q' = [k \in 1..Len(frames) |-> QuantizeFrame(frames[k], opts)]
  /\ si' = 1
  /\ segPc' = "scan"
  /\ UNCHANGED <<frames, opts, cur, notes, merged>>
  /\ UNCHANGED nonSegVars

\* lines 55-83, one iteration
SegScanFrame ==
  /\ segPc = "scan" /\ si <= Len(q)
  /\ LET st == ScanStep([cur |-> cur, notes |-> notes], q[si], opts)
     IN  cur' = st.cur /\ notes' = st.notes
  /\ si' = si + 1
  /\ UNCHANGED <<segPc, frames, opts, q, merged>>
  /\ UNCHANGED nonSegVars

\* lines 85-91: leave the loop, close the open note, sort
SegCloseStream ==
  /\ segPc = "scan" /\ si > Len(q)
  /\ notes' = SortByStart(CloseStream([cur |-> cur, notes |-> notes], q, opts))
  /\ merged' = <<>>
  /\ si' = 1
  /\ segPc' = "merge"
  /\ UNCHANGED <<frames, opts, q, cur>>
  /\ UNCHANGED nonSegVars

\* lines 92-100, one iteration
SegMergeNote ==
  /\ segPc = "merge" /\ si <= Len(notes)
  /\ merged' = MergeStep(merged, notes[si], opts)
  /\ si' = si + 1
  /\ UNCHANGED <<segPc, frames, opts, q, cur, notes>>
  /\ UNCHANGED nonSegVars

\* line 101
SegReturn ==
  /\ segPc = "merge" /\ si > Len(notes)
  /\ segPc' = "done"
  /\ UNCHANGED <<frames, opts, q, si, cur, notes, merged>>
  /\ UNCHANGED nonSegVars

SegNext ==
  \/ SegQuantize
  \/ SegScanFrame
  \/ SegCloseStream
  \/ SegMergeNote
  \/ SegReturn

SpecSeg == SegInit /\ [][SegNext]_vars

(***************************************************************************)
(* Properties of framesToNotes                                             *)
(***************************************************************************)
SegDone == segPc = "done"

Overlap(a, b) == a.start < b.end /\ b.start < a.end

\* C1: the returned list is ordered by non-decreasing start, and no two
\* returned notes of identical pitch overlap in time.
C1_OrderedNoSamePitchOverlap ==
  SegDone =>
    /\ \A k \in 1..(Len(merged) - 1) : merged[k].start <= merged[k + 1].start
    /\ \A a, b \in 1..Len(merged) :
         (a # b /\ merged[a].midi = merged[b].midi)
           => ~Overlap(merged[a], merged[b])

\* Two notes of one pitch are returned, kept apart by a gap wider than mergeGap.
C1_Witness ==
  /\ SegDone
  /\ \E a, b \in 1..Len(merged) :
       /\ a < b /\ merged[a].midi = merged[b].midi
       /\ merged[b].start - merged[a].end > opts.mergeGap

\* The scenario of C6: the frames a..b are a tone of one pitch with the
\* single unusable frame d strictly inside; the frames around it are unusable.
DropoutTone(a, d, b) ==
  /\ 1 <= a /\ a < d /\ d < b /\ b <= Len(q)
  /\ q[a].midi # NULL
  /\ q[d].midi = NULL
  /\ \A k \in a..b : k # d => q[k].midi = q[a].midi
  /\ \A k \in 1..Len(q) : (k < a \/ k > b) => q[k].midi = NULL
  /\ \A k \in 1..(Len(q) - 1) : q[k + 1].t - q[k].t <= opts.mergeGap

\* Where the scan closes a note whose last usable frame is b.
ToneEnd(b) == IF b < Len(q) THEN q[b + 1].t ELSE Last(q).t

OneNoteFor(a, b) ==
  /\ Len(merged) = 1
  /\ merged[1].start = q[a].t
  /\ merged[1].end = ToneEnd(b)
  /\ merged[1].midi = Val(q[a].midi)

\* C6 as claimed: a tone lasting at least minNoteDur in total, interrupted
\* by one unusable frame, with frame spacing <= mergeGap, comes back as
\* exactly one note from its first usable frame to its end.
C6_DropoutAbsorbedTotal ==
  SegDone =>
    \A a, d, b \in 1..Len(q) :
      (DropoutTone(a, d, b) /\ ToneEnd(b) - q[a].t >= opts.minNoteDur)
        => OneNoteFor(a, b)

\* C6 as amended: the same, when each of the two usable runs around the
\* dropout lasts at least minNoteDur by itself (from its first frame to the
\* frame that closes it).
C6_DropoutAbsorbedEachRun ==
  SegDone =>
    \A a, d, b \in 1..Len(q) :
      (/\ DropoutTone(a, d, b)
       /\ q[d].t - q[a].t >= opts.minNoteDur
       /\ ToneEnd(b) - q[d + 1].t >= opts.minNoteDur)
        => OneNoteFor(a, b)

\* Two fragments were pushed and the merge pass joined them.
C6_Witness ==
  /\ SegDone
  /\ Len(notes) = 2
  /\ \E a, d, b \in 1..Len(q) :
       /\ DropoutTone(a, d, b)
       /\ q[d].t - q[a].t >= opts.minNoteDur
       /\ ToneEnd(b) - q[d + 1].t >= opts.minNoteDur
       /\ opts.minNoteDur > 0
       /\ OneNoteFor(a, b)

\* C7: every returned note has end > start.
C7_EndAfterStart ==
  SegDone => \A k \in 1..Len(merged) : merged[k].end > merged[k].start

\* C8: every returned note has an integer pitch in [0,127].
C8_PitchInMidiRange ==
  SegDone => \A k \in 1..Len(merged) : merged[k].midi \in 0..127

\* Frames rebuilt from the returned notes, on the time grid of the input:
\* a frame inside a note's span [start, end) is usable, with an f0 that
\* rounds to the note's pitch and the energy that gives the note's velocity;
\* every other frame is unusable.
InsideNote(t, n) == n.start <= t /\ t < n.end

RepresentativeHz(m) ==
  CHOOSE f \in {Val(kd.f0) : kd \in {x \in FrameKinds : x.f0 # NULL}} :
    hzToMidiRound(f) = m

\* the energy whose FrameVelocity is v: minRms + 0.2 * (v - 20) / 107
RepresentativeRms(v, o) ==
  o.minRms + CeilDiv((RmsDen \div 5) * (Max(v, 20) - 20), 107)

Reconstructed(ns, fs, o) ==
  [k \in 1..Len(fs) |->
     IF \E j \in 1..Len(ns) : InsideNote(fs[k].t, ns[j])
       THEN LET n == ns[CHOOSE j \in 1..Len(ns) : InsideNote(fs[k].t, ns[j])]
            IN  [t |-> fs[k].t, f0 |-> Some(RepresentativeHz(n.midi)),
                 conf |-> 100, rms |-> RepresentativeRms(n.velocity, o)]
       ELSE [t |-> fs[k].t, f0 |-> NULL, conf |-> 0, rms |-> 0]]

Rerun == framesToNotes(Reconstructed(merged, frames, opts), opts)

SamePitches(a, b) ==
  Len(a) = Len(b) /\ \A k \in 1..Len(a) : a[k].midi = b[k].midi

\* C15: re-running framesToNotes with the same options on frames rebuilt
\* from its own output returns the same number of notes with the same
\* pitches: no note is split and no two notes are merged further.
C15_Idempotent ==
  SegDone => SamePitches(Rerun, merged)

\* the same, for outputs without a zero-length note
C15_IdempotentProperNotes ==
  (SegDone /\ \A k \in 1..Len(merged) : merged[k].end > merged[k].start)
    => /\ SamePitches(Rerun, merged)
       /\ \A k \in 1..Len(merged) :
            Rerun[k].start = merged[k].start /\ Rerun[k].end = merged[k].end

\* the scan's state after the first i frames
PrefixState(i) == ScanAll(ScanStart, SubSeq(q, 1, i), 1, opts)

OutsideTolerance(a, b) == TolDen * Abs(a - b) > opts.pitchTolerance

\* what one iteration of the scan does with a usable frame while in a note
PitchStep ==
  (segPc = "scan" /\ si <= Len(q) /\ cur.midi # NULL /\ q[si].midi # NULL) =>
    LET fr == q[si]
        closed == Note(cur.start, fr.t, Val(cur.midi), cur.vel)
    IN  IF OutsideTolerance(Val(fr.midi), Val(cur.midi))
          THEN /\ cur' = [midi |-> fr.midi, start |-> fr.t, vel |-> fr.v]
               /\ notes' = IF fr.t - cur.start >= opts.minNoteDur
                             THEN Append(notes, closed) ELSE notes
          ELSE /\ cur'.midi = cur.midi /\ cur'.start = cur.start
               /\ 10 * cur'.vel <= 8 * cur.vel + 2 * fr.v + 5
               /\ 10 * cur'.vel > 8 * cur.vel + 2 * fr.v - 5
               /\ notes' = notes

\* a pitch change at frame i whose two notes are both kept
ChangeKept(i) ==
  LET st == PrefixState(i - 1)
  IN  /\ st.cur.midi # NULL /\ q[i].midi # NULL
      /\ OutsideTolerance(Val(q[i].midi), Val(st.cur.midi))
      /\ q[i].t - st.cur.start >= opts.minNoteDur
      /\ \E k \in 1..Len(notes) : notes[k].start = q[i].t

HandOver(i) ==
  \E k \in 1..(Len(merged) - 1) :
    /\ merged[k].end = q[i].t /\ merged[k + 1].start = q[i].t
    /\ merged[k].midi = Val(PrefixState(i - 1).cur.midi)
    /\ merged[k + 1].midi = Val(q[i].midi)

\* C17: in a note, a usable frame whose rounded pitch is more than
\* pitchTolerance away from the note's pitch (that of the note's first frame)
\* ends the note at the frame's time and starts a new note there with the
\* frame's pitch and velocity; when both notes are kept, the second starts
\* where the first ends.  A frame within tolerance changes only the velocity,
\* to round(0.8 * old + 0.2 * new).
C17_PitchChangeHandsOver ==
  /\ [][PitchStep]_vars
  /\ [](SegDone => \A i \in 2..Len(q) : ChangeKept(i) => HandOver(i))

\* a note of pitch 69 absorbed a frame of pitch 70, was ended by a frame of
\* pitch 71 two semitones from its first frame, and both notes were returned
C17_Witness ==
  /\ SegDone /\ opts.pitchTolerance = 2
  /\ \E i \in 3..Len(q) :
       /\ ChangeKept(i) /\ HandOver(i)
       /\ PrefixState(i - 1).cur.midi = Some(69)
       /\ q[i - 1].midi = Some(70) /\ q[i].midi = Some(71)

MidiVelocity == 1..127

\* round(20 + 107 * x) for x = clamp01((rms - minRms) / 0.2), rms in thousandths
IsFrameVelocity(v, rms) ==
  LET x == Max(0, Min(200, rms - opts.minRms))
  IN  /\ 200 * v <= 200 * 20 + 107 * x + 100
      /\ 200 * v > 200 * 20 + 107 * x - 100

\* C18: the velocity of every returned note is an integer in [1,127]: the
\* per-frame velocity clamp(round(20 + 107 * clamp01((rms - minRms)/0.2)), 1,
\* 127), the in-note smoothing and the merge average all stay in that range.
C18_VelocityInRange ==
  /\ \A k \in 1..Len(q) :
       q[k].midi # NULL =>
         (q[k].v \in MidiVelocity /\ IsFrameVelocity(q[k].v, frames[k].rms))
  /\ segPc \in {"scan", "merge", "done"} => cur.vel \in MidiVelocity
  /\ \A k \in 1..Len(notes) : notes[k].velocity \in MidiVelocity
  /\ \A k \in 1..Len(merged) : merged[k].velocity \in MidiVelocity

\* a merge happened, a returned velocity is no frame's own velocity, and a
\* frame loud enough for the top of the range was used
C18_Witness ==
  /\ SegDone /\ Len(merged) < Len(notes)
  /\ \E k \in 1..Len(merged) :
       \A j \in 1..Len(q) : q[j].v # merged[k].velocity
  /\ \E j \in 1..Len(q) : q[j].midi # NULL /\ q[j].v = 127 /\ frames[j].rms > 212

\* two notes that the merge pass joins
Mergeable(prev, n) ==
  prev.midi = n.midi /\ n.start - prev.end <= opts.mergeGap

\* the rounded simple mean of two velocities
IsMean(v, a, b) == 2 * v <= a + b + 1 /\ 2 * v > a + b - 1

\* what one iteration of the merge loop does
MergeEffect ==
  (segPc = "merge" /\ si <= Len(notes)) =>
    LET n == notes[si]
    IN  IF merged # <<>> /\ Mergeable(Last(merged), n)
          THEN /\ Len(merged') = Len(merged)
               /\ \A k \in 1..(Len(merged) - 1) : merged'[k] = merged[k]
               /\ Last(merged').end = n.end
               /\ IsMean(Last(merged').velocity, Last(merged).velocity, n.velocity)
               /\ Last(merged').start = Last(merged).start
               /\ Last(merged').midi = Last(merged).midi
          ELSE merged' = Append(merged, n)

\* C19: after the merge pass no two consecutive returned notes have the
\* same pitch and a gap (next.start - prev.end) <= mergeGap; a merge sets
\* the previous note's end to the merged note's end and its velocity to
\* the rounded mean of the two, and leaves its start and pitch unchanged.
C19_MergePassComplete ==
  /\ [][MergeEffect]_vars
  /\ [](\A k \in 1..(Len(merged) - 1) : ~Mergeable(merged[k], merged[k + 1]))

\* two notes of one pitch and different velocities were joined
C19_Witness ==
  /\ SegDone /\ Len(merged) < Len(notes)
  /\ \E k \in 1..(Len(notes) - 1) :
       /\ Mergeable(notes[k], notes[k + 1])
       /\ notes[k].velocity # notes[k + 1].velocity
       /\ notes[k].end < notes[k + 1].start

(***************************************************************************)
(* Inputs of the estimator                                                 *)
(***************************************************************************)
MaxWindow == 6
SampleValues == {-1, 0, 1}
YinSampleRates == {12}
YinFMins == {3, 4}
YinFMaxs == {6, 12}
\* the default threshold 0.12 (line 8), and values around it
Thresholds == {<<-1, 10>>, <<0, 1>>, <<12, 100>>, <<1, 1>>, <<3, 2>>}

Windows == UNION {[1..n -> SampleValues] : n \in 3..MaxWindow}

YinInit ==
  /\ OthersIdle("yin")
  /\ yinPc = "start"
  /\ \E w \in Windows, sr \in YinSampleRates, lo \in YinFMins,
        hi \in YinFMaxs, th \in Thresholds :
       yinIn = [frame |-> w, sampleRate |-> sr, fMin |-> lo, fMax |-> hi,
                threshold |-> th]
  /\ yinD = <<>> /\ yinCmndf = <<>> /\ yinTau = NULL /\ yinOut = <<>>

YinMaxTau == MaxTau(yinIn.sampleRate, yinIn.fMin)
YinMinTau == MinTau(yinIn.sampleRate, yinIn.fMax)

(***************************************************************************)
(* yinPitch, phase by phase                                                *)
(***************************************************************************)
\* line 14: the window is too short for fMin
YinTooShort ==
  /\ yinPc = "start" /\ YinMaxTau >= Len(yinIn.frame)
  /\ yinOut' = NoPitch
  /\ yinPc' = "done"
  /\ UNCHANGED <<yinIn, yinD, yinCmndf, yinTau>>
  /\ UNCHANGED nonYinVars

\* lines 16-24
YinDifference ==
  /\ yinPc = "start" /\ YinMaxTau < Len(yinIn.frame)
  /\ yinD' = [tau \in 1..YinMaxTau |-> Difference(yinIn.frame, tau)]
  /\ yinPc' = "cmndf"
  /\ UNCHANGED <<yinIn, yinCmndf, yinTau, yinOut>>
  /\ UNCHANGED nonYinVars

\* lines 26-32
YinNormalize ==
  /\ yinPc = "cmndf"
  /\ yinCmndf' = Cmndf(yinD, YinMaxTau)
  /\ yinPc' = "search"
  /\ UNCHANGED <<yinIn, yinD, yinTau, yinOut>>
  /\ UNCHANGED nonYinVars

\* lines 34-41, when a lag below the threshold exists
YinFound ==
  /\ yinPc = "search"
  /\ SearchFrom(yinCmndf, YinMinTau, YinMaxTau, yinIn.threshold) # NULL
  /\ yinTau' = SearchFrom(yinCmndf, YinMinTau, YinMaxTau, yinIn.threshold)
  /\ yinPc' = "refine"
  /\ UNCHANGED <<yinIn, yinD, yinCmndf, yinOut>>
  /\ UNCHANGED nonYinVars

\* lines 34-43, when none does
YinNotFound ==
  /\ yinPc = "search"
  /\ SearchFrom(yinCmndf, YinMinTau, YinMaxTau, yinIn.threshold) = NULL
  /\ yinOut' = NoPitch
  /\ yinPc' = "done"
  /\ UNCHANGED <<yinIn, yinD, yinCmndf, yinTau>>
  /\ UNCHANGED nonYinVars

\* lines 45-54
YinRefine ==
  /\ yinPc = "refine"
  /\ yinOut' = Refine(yinCmndf, Val(yinTau), YinMaxTau, yinIn.sampleRate)
  /\ yinPc' = "done"
  /\ UNCHANGED <<yinIn, yinD, yinCmndf, yinTau>>
  /\ UNCHANGED nonYinVars

YinNext ==
  \/ YinTooShort
  \/ YinDifference
  \/ YinNormalize
  \/ YinFound
  \/ YinNotFound
  \/ YinRefine

SpecYin == YinInit /\ [][YinNext]_vars

(***************************************************************************)
(* Properties of yinPitch                                                  *)
(***************************************************************************)
YinDone == yinPc = "done"
SilentWindow == \A k \in 1..Len(yinIn.frame) : yinIn.frame[k] = 0

\* C2: for an all-zero window whose length N satisfies maxLag < N, yinPitch
\* returns no f0 and confidence 0, for every value of threshold.
C2_SilentWindowNoPitch ==
  (YinDone /\ SilentWindow /\ YinMaxTau < Len(yinIn.frame))
    => (yinOut.f0 = NULL /\ yinOut.confidence = FZero)

\* the lags of the search, and the first of them below the threshold
LagRange == YinMinTau..YinMaxTau
BelowThreshold(tau) == FLess(yinCmndf[tau], yinIn.threshold)
FirstBelow(tau) ==
  /\ tau \in LagRange /\ BelowThreshold(tau)
  /\ \A j \in LagRange : j < tau => ~BelowThreshold(j)

\* tau ends the strictly descending run of cmndf that begins at first
DescentEnd(first, tau) ==
  /\ first <= tau /\ tau <= YinMaxTau
  /\ \A j \in first..(tau - 1) : FLess(yinCmndf[j + 1], yinCmndf[j])
  /\ tau < YinMaxTau => ~FLess(yinCmndf[tau + 1], yinCmndf[tau])

\* C16: when yinPitch returns an estimate, the integer lag it chose lies in
\* [minLag, maxLag] and ends the strictly descending CMNDF run that begins
\* at the first lag of the range below threshold; when no lag of the range
\* is below threshold, it returns no estimate and confidence 0.
C16_FirstDipThenDescent ==
  YinDone =>
    /\ yinOut.f0 # NULL =>
         /\ yinTau # NULL
         /\ Val(yinTau) \in LagRange
         /\ \E first \in LagRange :
              FirstBelow(first) /\ DescentEnd(first, Val(yinTau))
    /\ (YinMaxTau < Len(yinIn.frame) /\ \A j \in LagRange : ~BelowThreshold(j))
         => yinOut = NoPitch

\* the search walked down from the first dip and stopped at a lag that is
\* not the least CMNDF of the range
C16_Witness ==
  /\ YinDone /\ yinOut.f0 # NULL
  /\ \E first \in LagRange : FirstBelow(first) /\ first < Val(yinTau)
  /\ \E j \in LagRange : FLess(yinCmndf[j], yinCmndf[Val(yinTau)])

\* 1 - threshold, and the caller's confidence floor (index.tsx line 243)
OneMinus(th) == Frac(th[2] - th[1], th[2])
ConfFloor == Frac(CallerMinConf, 100)

\* C21: for 0 < threshold <= 1, yinPitch returns an f0 only together with
\* a confidence above 1 - threshold and at most 1, and no f0 only together
\* with confidence 0; so at the pipeline's threshold 0.12 a result with an
\* f0 is never below the confidence floor 0.22 of the segmenter.
C21_ConfidenceAboveFloor ==
  (YinDone /\ FLess(FZero, yinIn.threshold) /\ ~FLess(FOne, yinIn.threshold)) =>
    /\ yinOut.f0 # NULL =>
         /\ FLess(OneMinus(yinIn.threshold), yinOut.confidence)
         /\ ~FLess(FOne, yinOut.confidence)
    /\ yinOut.f0 = NULL => yinOut.confidence = FZero
    /\ (yinIn.threshold = ScanThreshold /\ yinOut.f0 # NULL)
         => ~FLess(yinOut.confidence, ConfFloor)

\* a pitch returned at the pipeline's threshold with a confidence strictly
\* between 1 - threshold and 1
C21_Witness ==
  /\ YinDone /\ yinIn.threshold = ScanThreshold
  /\ yinOut.f0 # NULL
  /\ FLess(OneMinus(ScanThreshold), yinOut.confidence)
  /\ FLess(yinOut.confidence, FOne)

(***************************************************************************)
(* Inputs of the encoder                                                   *)
(***************************************************************************)
MaxNotes == 2
\* note boundaries, in 1/TimeDen second
NoteTimes == {0, 1, 500, 1000}
NotePitches == {[midi |-> 60, velocity |-> 80], [midi |-> 62, velocity |-> 90]}
\* 120 is the default tempo (index.tsx line 17)
Bpms == {3, 97, 120}

NoteEventsIn ==
  {Note(s, e, pv.midi, pv.velocity) :
     s \in NoteTimes, e \in NoteTimes, pv \in NotePitches}

NoteLists ==
  UNION {[1..n -> {x \in NoteEventsIn : x.start <= x.end}] : n \in 0..MaxNotes}

MidiInit ==
  /\ OthersIdle("midi")
  /\ midiPc = "build"
  /\ \E ns \in NoteLists, b \in Bpms : midiIn = [notes |-> ns, bpm |-> b]
  /\ events = <<>> /\ bytes = <<>> /\ track = <<>> /\ lastTick = 0 /\ mi = 0

(***************************************************************************)
(* downloadMidi, step by step                                              *)
(***************************************************************************)
\* lines 18-29
MidiBuild ==
  /\ midiPc = "build"
  /\ events' = BuildEvents(midiIn.notes, midiIn.bpm)
  /\ midiPc' = "sort"
  /\ UNCHANGED <<midiIn, bytes, track, lastTick, mi>>
  /\ UNCHANGED nonMidiVars

\* line 31
MidiSort ==
  /\ midiPc = "sort"
  /\ events' = SortByTick(events)
  /\ midiPc' = "header"
  /\ UNCHANGED <<midiIn, bytes, track, lastTick, mi>>
  /\ UNCHANGED nonMidiVars

\* lines 34-51
MidiHeader ==
  /\ midiPc = "header"
  /\ bytes' = Header
  /\ track' = <<>>
  /\ lastTick' = 0
  /\ mi' = 1
  /\ midiPc' = "track"
  /\ UNCHANGED <<midiIn, events>>
  /\ UNCHANGED nonMidiVars

\* lines 52-57, one iteration
MidiWriteEvent ==
  /\ midiPc = "track" /\ mi <= Len(events)
  /\ track' = WriteEvent(track, events[mi], lastTick)
  /\ lastTick' = events[mi].t
  /\ mi' = mi + 1
  /\ UNCHANGED <<midiPc, midiIn, events, bytes>>
  /\ UNCHANGED nonMidiVars

\* lines 59-60
MidiEndOfTrack ==
  /\ midiPc = "track" /\ mi > Len(events)
  /\ track' = EndOfTrack(track)
  /\ midiPc' = "chunk"
  /\ UNCHANGED <<midiIn, events, bytes, lastTick, mi>>
  /\ UNCHANGED nonMidiVars

\* lines 62-67
MidiChunk ==
  /\ midiPc = "chunk"
  /\ bytes' = bytes \o TrackChunk(track)
  /\ midiPc' = "done"
  /\ UNCHANGED <<midiIn, events, track, lastTick, mi>>
  /\ UNCHANGED nonMidiVars

MidiNext ==
  \/ MidiBuild
  \/ MidiSort
  \/ MidiHeader
  \/ MidiWriteEvent
  \/ MidiEndOfTrack
  \/ MidiChunk

SpecMidi == MidiInit /\ [][MidiNext]_vars

(***************************************************************************)
(* A reader of Standard MIDI Files, to state what the bytes decode to      *)
(***************************************************************************)
U16At(b, p) == b[p] * 256 + b[p + 1]
U32At(b, p) == ((b[p] * 256 + b[p + 1]) * 256 + b[p + 2]) * 256 + b[p + 3]

\* a variable-length quantity at pos: its value and the position after it
RECURSIVE ReadVlq(_, _, _)
ReadVlq(b, pos, acc) ==
  IF pos > Len(b) THEN [val |-> acc, next |-> pos]
  ELSE IF b[pos] >= 128
    THEN ReadVlq(b, pos + 1, acc * 128 + (b[pos] - 128))
    ELSE [val |-> acc * 128 + b[pos], next |-> pos + 1]

\* the size of the event whose status byte is at pos
EventSize(b, pos) ==
  IF b[pos] = 255
    THEN (IF pos + 2 <= Len(b) THEN 3 + b[pos + 2] ELSE 3)
  ELSE IF b[pos] \div 16 \in {12, 13} THEN 2
  ELSE 3

\* the events of a track's bytes, with absolute ticks
RECURSIVE ParseTrack(_, _, _)
ParseTrack(b, pos, tick) ==
  IF pos > Len(b) THEN <<>>
  ELSE LET v == ReadVlq(b, pos, 0)
       IN  IF v.next > Len(b)
             THEN <<[t |-> tick + v.val, data |-> <<>>]>>
             ELSE LET n == EventSize(b, v.next)
                  IN  <<[t |-> tick + v.val,
                         data |-> SubSeq(b, v.next, Min(Len(b), v.next + n - 1))]>>
                        \o ParseTrack(b, v.next + n, tick + v.val)

MidiDone == midiPc = "done"

HeaderLen == 8 + 6
DecFormat == U16At(bytes, 9)
DecTrackCount == U16At(bytes, 11)
DecDivision == U16At(bytes, 13)
DecTrackLen == U32At(bytes, HeaderLen + 5)
DecTrackBytes == SubSeq(bytes, HeaderLen + 9, Len(bytes))
DecEvents == ParseTrack(DecTrackBytes, 1, 0)
DecNoteEvents == SelectSeq(DecEvents, LAMBDA e : e.data # <<>> /\ e.data[1] \in {128, 144})
DecTempo(e) == (e.data[4] * 256 + e.data[5]) * 256 + e.data[6]
IsTempo(e) == Len(e.data) = 6 /\ SubSeq(e.data, 1, 3) = <<255, 81, 3>>
EndOfTrackData == <<255, 47, 0>>

\* an 'MThd' chunk of length 6, then exactly one 'MTrk' chunk to the end
OneTrackFile ==
  /\ Len(bytes) >= HeaderLen + 8
  /\ SubSeq(bytes, 1, 4) = MThd
  /\ U32At(bytes, 5) = 6
  /\ SubSeq(bytes, HeaderLen + 1, HeaderLen + 4) = MTrk
  /\ DecTrackLen = Len(DecTrackBytes)

\* C3: the file is a format-0 Standard MIDI File: header 'MThd', length 6,
\* format 0, track count 1, division 480, followed by exactly one 'MTrk'.
C3_Format0Header ==
  MidiDone =>
    /\ OneTrackFile
    /\ DecFormat = 0
    /\ DecTrackCount = 1
    /\ DecDivision = 480

\* the tick nearest to n/TimeDen seconds: round(sec * bpm/60 * 480)
NearestTick(n, bpm) == (2 * n * bpm * 8 + TimeDen) \div (2 * TimeDen)

\* the note-on and note-off of every note, in note-list order
ExpectedNoteEvents ==
  [k \in 1..(2 * Len(midiIn.notes)) |->
     LET n == midiIn.notes[(k + 1) \div 2]
     IN  IF k % 2 = 1
           THEN [t |-> NearestTick(n.start, midiIn.bpm),
                 data |-> <<144, n.midi, n.velocity>>, sec |-> n.start]
           ELSE [t |-> NearestTick(n.end, midiIn.bpm),
                 data |-> <<128, n.midi, 0>>, sec |-> n.end]]

\* the place of the k-th expected event in tick order, ties in list order
Rank(es, k) ==
  Cardinality({j \in 1..Len(es) :
                 es[j].t < es[k].t \/ (es[j].t = es[k].t /\ j <= k)})

\* the decoded note events are the expected ones in tick order
DecodesToNotes ==
  /\ Len(DecNoteEvents) = Len(ExpectedNoteEvents)
  /\ \A k \in 1..Len(ExpectedNoteEvents) :
       LET e == ExpectedNoteEvents[k]
           d == DecNoteEvents[Rank(ExpectedNoteEvents, k)]
       IN  /\ d.t = e.t
           /\ d.data = e.data
           \* back to seconds, within one tick of the original boundary
           /\ Abs(d.t * 60 * TimeDen - e.sec * midiIn.bpm * ppq) <= 60 * TimeDen

\* the tempo event at tick 0 carries round(60,000,000 / bpm)
DecodesToTempo ==
  /\ Len(DecEvents) >= 1
  /\ IsTempo(DecEvents[1])
  /\ DecEvents[1].t = 0
  /\ LET us == DecTempo(DecEvents[1])
     IN  /\ 2 * midiIn.bpm * us <= 2 * 60000000 + midiIn.bpm
         /\ 2 * 60000000 + midiIn.bpm < 2 * midiIn.bpm * (us + 1)

RoundTripNotes ==
  \A k \in 1..Len(midiIn.notes) :
    LET n == midiIn.notes[k]
    IN  /\ 0 <= n.start /\ n.start < n.end
        /\ n.midi \in 0..127 /\ n.velocity \in 1..127

\* C4 as claimed: for any bpm > 0 and notes with 0 <= start < end, decoding
\* the bytes recovers the tempo round(60,000,000/bpm), the tick-ordered
\* note-on/off sequence, and boundaries within one tick.
C4_RoundTripAnyBpm ==
  (MidiDone /\ midiIn.bpm > 0 /\ RoundTripNotes)
    => (OneTrackFile /\ DecodesToTempo /\ DecodesToNotes)

\* the tempo meta event holds 24 bits
TempoFits == UsPerQuarter(midiIn.bpm) < 16777216

\* C4 as amended: the same for every bpm whose tempo round(60,000,000/bpm)
\* fits the 3 bytes of the tempo event (bpm >= 3.58).
C4_RoundTripTempoFits ==
  (MidiDone /\ midiIn.bpm > 0 /\ TempoFits /\ RoundTripNotes)
    => (OneTrackFile /\ DecodesToTempo /\ DecodesToNotes)

\* two notes, one with a two-byte delta-time, were encoded and decoded
C4_Witness ==
  /\ MidiDone /\ TempoFits /\ RoundTripNotes
  /\ Len(midiIn.notes) = 2
  /\ \E k \in 1..Len(DecNoteEvents) : DecNoteEvents[k].t >= 128
  /\ DecodesToNotes

Sorted(evs) == \A k \in 1..(Len(evs) - 1) : evs[k].t <= evs[k + 1].t

ExampleNotes == <<Note(0, 500, 60, 80), Note(500, 1000, 62, 90)>>
ExampleDecoded ==
  <<[t |-> 0, data |-> <<255, 81, 3, 7, 161, 32>>],
    [t |-> 0, data |-> <<192, 0>>],
    [t |-> 0, data |-> <<144, 60, 80>>],
    [t |-> 480, data |-> <<128, 60, 0>>],
    [t |-> 480, data |-> <<144, 62, 90>>],
    [t |-> 960, data |-> <<128, 62, 0>>],
    [t |-> 960, data |-> EndOfTrackData]>>

\* C9: for notes with 0 <= start <= end the events are written in
\* non-decreasing tick order, every delta-time is eventTick - previousTick
\* and never negative (the clamp changes nothing), the running sum of the
\* delta-times at each note-on/off is round(sec * bpm/60 * 480); and the
\* two-note example at bpm 120 decodes to tempo 500000, on(60,80)@0,
\* off(60)@480, on(62,90)@480, off(62)@960, end-of-track.
C9_DeltasFollowTicks ==
  /\ midiPc \in {"header", "track", "chunk", "done"} => Sorted(events)
  /\ (midiPc = "track" /\ mi <= Len(events)) => events[mi].t - lastTick >= 0
  /\ MidiDone =>
       /\ DecEvents = events \o <<[t |-> Last(events).t, data |-> EndOfTrackData]>>
       /\ DecodesToNotes
       /\ (midiIn = [notes |-> ExampleNotes, bpm |-> 120]
             => (DecEvents = ExampleDecoded /\ DecTempo(DecEvents[1]) = 500000))

\* a note list that the sort has to reorder was written
C9_Witness ==
  /\ MidiDone
  /\ ~Sorted(BuildEvents(midiIn.notes, midiIn.bpm))
  /\ \E k \in 2..Len(DecEvents) : DecEvents[k].t - DecEvents[k - 1].t >= 128

\* C10: an empty note list yields the header chunk and one track chunk
\* whose declared length is its byte count and whose events are exactly
\* tempo (tick 0), program change (tick 0) and end-of-track.
C10_EmptyListWellFormed ==
  (MidiDone /\ midiIn.notes = <<>>) =>
    /\ OneTrackFile
    /\ Len(DecEvents) = 3
    /\ IsTempo(DecEvents[1]) /\ DecEvents[1].t = 0
    /\ DecEvents[2] = [t |-> 0, data |-> <<192, 0>>]
    /\ DecEvents[3] = [t |-> 0, data |-> EndOfTrackData]

C10_Witness == MidiDone /\ midiIn.notes = <<>> /\ Len(bytes) = HeaderLen + 8 + 14

\* the decoded track is tempo, program change, then the note events in
\* tick order with equal ticks in insertion order
InsertionOrderKept ==
  /\ Len(DecEvents) = 2 + Len(ExpectedNoteEvents) + 1
  /\ IsTempo(DecEvents[1]) /\ DecEvents[1].t = 0
  /\ DecEvents[2] = [t |-> 0, data |-> <<192, 0>>]
  /\ \A k \in 1..Len(ExpectedNoteEvents) :
       LET d == DecEvents[2 + Rank(ExpectedNoteEvents, k)]
       IN  d.t = ExpectedNoteEvents[k].t /\ d.data = ExpectedNoteEvents[k].data
  /\ \A j, k \in 1..Len(ExpectedNoteEvents) :
       (j < k /\ ExpectedNoteEvents[j].t = ExpectedNoteEvents[k].t)
         => Rank(ExpectedNoteEvents, j) < Rank(ExpectedNoteEvents, k)

\* every note's note-on is written before its own note-off
OnBeforeOwnOff ==
  \A n \in 1..Len(midiIn.notes) :
    Rank(ExpectedNoteEvents, 2 * n - 1) < Rank(ExpectedNoteEvents, 2 * n)

\* the decoded note events of pitch p: on, off, on, off, ...
EventsOfPitch(p) == SelectSeq(DecNoteEvents, LAMBDA e : e.data[2] = p)
Alternates(es) ==
  \A k \in 1..Len(es) : es[k].data[1] = (IF k % 2 = 1 THEN 144 ELSE 128)
EachPitchAlternates ==
  \A n \in 1..Len(midiIn.notes) : Alternates(EventsOfPitch(midiIn.notes[n].midi))

OrderedByStart(ns) == \A k \in 1..(Len(ns) - 1) : ns[k].start <= ns[k + 1].start
NoSamePitchOverlap(ns) ==
  \A a, b \in 1..Len(ns) :
    (a # b /\ ns[a].midi = ns[b].midi) => ~Overlap(ns[a], ns[b])
\* each note ends no later than the later notes of its pitch start
SamePitchInSequence(ns) ==
  \A a, b \in 1..Len(ns) :
    (a < b /\ ns[a].midi = ns[b].midi) => ns[a].end <= ns[b].start

\* C20 as claimed: events of equal tick keep their insertion order (tempo,
\* program change, then each note's on and off in list order), every note
\* with start <= end has its note-on before its own note-off, and for a
\* list ordered by start with no same-pitch overlap the note-ons and
\* note-offs of each pitch strictly alternate.
C20_TiesStableAlternateNoOverlap ==
  MidiDone =>
    /\ InsertionOrderKept
    /\ OnBeforeOwnOff
    /\ (OrderedByStart(midiIn.notes) /\ NoSamePitchOverlap(midiIn.notes))
         => EachPitchAlternates

\* C20 as amended: the same, the alternation for a list ordered by start in
\* which every note ends no later than the later notes of its pitch start.
C20_TiesStableAlternateInSequence ==
  MidiDone =>
    /\ InsertionOrderKept
    /\ OnBeforeOwnOff
    /\ (OrderedByStart(midiIn.notes) /\ SamePitchInSequence(midiIn.notes))
         => EachPitchAlternates

\* two notes of one pitch, the second starting where the first ends, at a
\* bpm where the first note's on and off and the second's on share a tick
C20_Witness ==
  /\ MidiDone /\ Len(midiIn.notes) = 2
  /\ midiIn.notes[1].midi = midiIn.notes[2].midi
  /\ midiIn.notes[1].start < midiIn.notes[1].end
  /\ midiIn.notes[1].end = midiIn.notes[2].start
  /\ midiIn.notes[2].start < midiIn.notes[2].end
  /\ Len(DecNoteEvents) = 4
  /\ \A k \in 1..3 : DecNoteEvents[k].t = DecNoteEvents[1].t
  /\ EachPitchAlternates

(***************************************************************************)
(* tvlq by itself (part_000 lines 43-49), one step per loop iteration.     *)
(* For 0 <= n < 2^31, n >>> 0 is n and x >>= 7 is the floor of x / 128.    *)
(***************************************************************************)
\* the deltas around every change of the number of 7-bit groups
VlqDeltas ==
  (0..300) \cup (16300..16500) \cup (2097100..2097200)
    \cup {268435454, 268435455}

VlqInit ==
  /\ OthersIdle("vlq")
  /\ vlqPc = "start"
  /\ vlqN \in VlqDeltas
  /\ vlqX = 0 /\ vlqOut = <<>> /\ vlqTrack = <<>>

\* A slip: the loop stops one group early when the group left is 1.
VlqMoreAboveOne(x) == x > 1

\* line 47: the loop condition (x >>= 7) > 0, on the shifted x
VlqMore(x) == x > 0

\* lines 44-46
VlqFirst ==
  /\ vlqPc = "start"
  /\ vlqX' = vlqN
  /\ vlqOut' = <<vlqN % 128>>
  /\ vlqPc' = "loop"
  /\ UNCHANGED <<vlqN, vlqTrack>>
  /\ UNCHANGED nonVlqVars

\* line 47, one iteration
VlqGroup ==
  /\ vlqPc = "loop" /\ VlqMore(vlqX \div 128)
  /\ vlqX' = vlqX \div 128
  /\ vlqOut' = <<((vlqX \div 128) % 128) + 128>> \o vlqOut
  /\ UNCHANGED <<vlqPc, vlqN, vlqTrack>>
  /\ UNCHANGED nonVlqVars

\* lines 47-48: the loop ends and out is pushed to the track
VlqPush ==
  /\ vlqPc = "loop" /\ ~VlqMore(vlqX \div 128)
  /\ vlqX' = vlqX \div 128
  /\ vlqTrack' = [k \in 1..Len(vlqOut) |-> Byte(vlqOut[k])]
  /\ vlqPc' = "done"
  /\ UNCHANGED <<vlqN, vlqOut>>
  /\ UNCHANGED nonVlqVars

VlqNext ==
  \/ VlqFirst
  \/ VlqGroup
  \/ VlqPush

SpecVlq == VlqInit /\ [][VlqNext]_vars

(***************************************************************************)
(* Properties of tvlq                                                      *)
(***************************************************************************)
VlqDone == vlqPc = "done"

\* the least number of 7-bit groups that hold n
RECURSIVE GroupsNeeded(_)
GroupsNeeded(n) == IF n < 128 THEN 1 ELSE 1 + GroupsNeeded(n \div 128)

RECURSIVE Pow128(_)
Pow128(k) == IF k = 0 THEN 1 ELSE 128 * Pow128(k - 1)

\* C11: for every delta n with 0 <= n < 2^28, tvlq writes the minimal
\* variable-length quantity: big-endian 7-bit groups, the continuation bit
\* 0x80 on every byte but the last, no leading zero group (n = 0 is the
\* single byte 0x00), and decoding the bytes gives n back.
C11_MinimalVlq ==
  (VlqDone /\ 0 <= vlqN /\ vlqN < Pow128(4)) =>
    LET L == Len(vlqTrack)
    IN  /\ L = GroupsNeeded(vlqN)
        /\ \A k \in 1..L :
             /\ vlqTrack[k] \in 0..255
             /\ (vlqTrack[k] >= 128) <=> (k < L)
             /\ vlqTrack[k] % 128 = (vlqN \div Pow128(L - k)) % 128
        /\ L > 1 => vlqTrack[1] # 128
        /\ vlqN = 0 => vlqTrack = <<0>>
        /\ ReadVlq(vlqTrack, 1, 0) = [val |-> vlqN, next |-> L + 1]
        /\ vlqTrack = tvlq(vlqN)

\* the largest four-byte quantity was written
C11_Witness ==
  /\ VlqDone /\ vlqN = Pow128(4) - 1
  /\ vlqTrack = <<255, 255, 255, 127>>

(***************************************************************************)
(* Inputs of the WAV renderer: the default 44100 Hz scaled down to rates   *)
(* whose buffers TLC can enumerate.                                        *)
(***************************************************************************)
MaxWavNotes == 2
WavNotes == {Note(0, 500, 60, 80), Note(0, 1000, 62, 90), Note(500, 1200, 60, 80)}
WavNoteLists == UNION {[1..n -> WavNotes] : n \in 0..MaxWavNotes}
WavSampleRates == {1, 2}
\* amplitudes -1.5, -1, -0.3, 0, 0.5, 1 and 1.5
WavSampleValues == {-15, -10, -3, 0, 5, 10, 15}

WavInit ==
  /\ OthersIdle("wav")
  /\ wavPc = "render"
  /\ \E ns \in WavNoteLists, sr \in WavSampleRates :
       wavIn = [notes |-> ns, sampleRate |-> sr]
  /\ rendered = <<>> /\ ab = <<>> /\ wavI = 0 /\ offset = 0

(***************************************************************************)
(* renderNotesToWavBlob, step by step                                      *)
(***************************************************************************)
\* lines 21-41: a mono buffer of ceil(duration * sampleRate) frames
WavRender ==
  /\ wavPc = "render"
  /\ \E data \in [1..WavFrames(wavIn.notes, wavIn.sampleRate) -> WavSampleValues] :
       rendered' = [numberOfChannels |-> 1, sampleRate |-> wavIn.sampleRate,
                    length |-> WavFrames(wavIn.notes, wavIn.sampleRate),
                    data |-> data]
  /\ wavPc' = "header"
  /\ UNCHANGED <<wavIn, ab, wavI, offset>>
  /\ UNCHANGED nonWavVars

\* lines 59-86
WavWriteHeader ==
  /\ wavPc = "header"
  /\ ab' = WavHeader(rendered)
  /\ offset' = 44
  /\ wavI' = 0
  /\ wavPc' = "data"
  /\ UNCHANGED <<wavIn, rendered>>
  /\ UNCHANGED nonWavVars

\* lines 87-94, one iteration (one channel)
WavWriteSample ==
  /\ wavPc = "data" /\ wavI < rendered.length
  /\ ab' = WriteAt(ab, offset, Int16LE(Pcm16(rendered.data[wavI + 1])))
  /\ offset' = offset + 2
  /\ wavI' = wavI + 1
  /\ UNCHANGED <<wavPc, wavIn, rendered>>
  /\ UNCHANGED nonWavVars

\* lines 87 and 96
WavReturn ==
  /\ wavPc = "data" /\ wavI >= rendered.length
  /\ wavPc' = "done"
  /\ UNCHANGED <<wavIn, rendered, ab, wavI, offset>>
  /\ UNCHANGED nonWavVars

WavNext ==
  \/ WavRender
  \/ WavWriteHeader
  \/ WavWriteSample
  \/ WavReturn

SpecWav == WavInit /\ [][WavNext]_vars

(***************************************************************************)
(* Properties of the WAV output                                            *)
(***************************************************************************)
WavDone == wavPc = "done"

\* little-endian fields at the 0-based position p
LE16At(b, p) == b[p + 1] + 256 * b[p + 2]
LE32At(b, p) == b[p + 1] + 256 * (b[p + 2] + 256 * (b[p + 3] + 256 * b[p + 4]))
Int16At(b, p) == IF LE16At(b, p) >= 32768 THEN LE16At(b, p) - 65536 ELSE LE16At(b, p)

\* the latest note end, at least one second, in 1/TimeDen second
LongestEnd ==
  LET ends == {wavIn.notes[k].end : k \in 1..Len(wavIn.notes)} \cup {TimeDen}
  IN  CHOOSE m \in ends : \A x \in ends : x <= m

\* F = ceil((max(1, max note end) + 0.5) * sampleRate): the least F with
\* F >= (LongestEnd / TimeDen + 1/2) * sampleRate
IsFrameCount(F) ==
  /\ 2 * TimeDen * F >= (2 * LongestEnd + TimeDen) * wavIn.sampleRate
  /\ 2 * TimeDen * (F - 1) < (2 * LongestEnd + TimeDen) * wavIn.sampleRate

\* C12: the WAV buffer is exactly 44 + 2F bytes, F the rendered frame count
\* ceil((max(1, max note end) + 0.5) * sampleRate), and the header agrees:
\* RIFF size 36 + 2F, fmt chunk size 16, PCM tag 1, 1 channel, byte rate
\* 2 * sampleRate, block align 2, 16 bits per sample, data size 2F.
C12_WavSizeAndHeader ==
  WavDone =>
    LET F == rendered.length
    IN  /\ IsFrameCount(F)
        /\ Len(ab) = 44 + 2 * F
        /\ SubSeq(ab, 1, 4) = RIFF
        /\ LE32At(ab, 4) = 36 + 2 * F
        /\ SubSeq(ab, 9, 12) = WAVE
        /\ SubSeq(ab, 13, 16) = FmtTag
        /\ LE32At(ab, 16) = 16
        /\ LE16At(ab, 20) = 1
        /\ LE16At(ab, 22) = 1
        /\ LE32At(ab, 24) = wavIn.sampleRate
        /\ LE32At(ab, 28) = 2 * wavIn.sampleRate
        /\ LE16At(ab, 32) = 2
        /\ LE16At(ab, 34) = 16
        /\ SubSeq(ab, 37, 40) = DataTag
        /\ LE32At(ab, 40) = 2 * F
        /\ offset = Len(ab)

\* a note ending after one second was rendered: ceil(3.4) = 4 frames
C12_Witness ==
  /\ WavDone /\ Len(wavIn.notes) = 2 /\ LongestEnd > TimeDen
  /\ wavIn.sampleRate = 2 /\ rendered.length = 4 /\ Len(ab) = 52

\* C13: every rendered sample is clamped to [-1,1] and written as a signed
\* 16-bit value: a negative sample scaled by 32768, a non-negative one by
\* 32767 (fraction dropped), so +1.0 and above give 32767, -1.0 and below
\* give -32768, and the written value never wraps to the other sign.
C13_Pcm16Clamped ==
  (wavPc \in {"data", "done"}) =>
    \A i \in 1..wavI :
      LET x == rendered.data[i]
          w == Int16At(ab, 44 + 2 * (i - 1))
      IN  /\ w \in (-32768)..32767
          /\ x >= SampleDen => w = 32767
          /\ x <= -SampleDen => w = -32768
          /\ (0 <= x /\ x < SampleDen) =>
               (w * SampleDen <= x * 32767 /\ x * 32767 < (w + 1) * SampleDen)
          /\ (-SampleDen < x /\ x < 0) =>
               ((w - 1) * SampleDen < x * 32768 /\ x * 32768 <= w * SampleDen)
          /\ (x < 0 => w < 0) /\ (x > 0 => w > 0) /\ (x = 0 => w = 0)

\* samples beyond both ends of the range and inside it were written
C13_Witness ==
  /\ WavDone
  /\ \E i, j, k \in 1..rendered.length :
       /\ rendered.data[i] > SampleDen /\ Int16At(ab, 44 + 2 * (i - 1)) = 32767
       /\ rendered.data[j] < -SampleDen /\ Int16At(ab, 44 + 2 * (j - 1)) = -32768
       /\ rendered.data[k] = -3 /\ Int16At(ab, 44 + 2 * (k - 1)) = -9830

(***************************************************************************)
(* Inputs of the frame scan: the code's frameSize 2048, hop 512, fMin 65,  *)
(* fMax 1200 at 44100 Hz, scaled down to windows TLC can enumerate.        *)
(***************************************************************************)
MaxSamples == 8
ScanFrameSizes == {4}
ScanHops == {1, 2}
ScanSampleRates == {12}
ScanFMins == {4}
ScanFMaxs == {6}

SampleBuffers == UNION {[1..n -> SampleValues] : n \in 0..MaxSamples}

ScanInit ==
  /\ OthersIdle("scan")
  /\ scanPc = "loop"
  /\ \E b \in SampleBuffers, sr \in ScanSampleRates, fs \in ScanFrameSizes,
        h \in ScanHops, lo \in ScanFMins, hi \in ScanFMaxs :
       scanIn = [samples |-> b, sampleRate |-> sr, frameSize |-> fs,
                 hop |-> h, fMin |-> lo, fMax |-> hi]
  /\ scanI = 0
  /\ outFrames = <<>>
  /\ yinCalls = {}

(***************************************************************************)
(* The scan loop                                                           *)
(***************************************************************************)
\* lines 224-236, one iteration
ScanWindow ==
  /\ scanPc = "loop"
  /\ ScanContinues(scanI, scanIn.frameSize, Len(scanIn.samples))
  /\ outFrames' = Append(outFrames, ScanFrame(scanIn, scanI))
  /\ yinCalls' = IF BelowGate(rmsSquared(WindowAt(scanIn, scanI)))
                   THEN yinCalls ELSE yinCalls \cup {scanI}
  /\ scanI' = scanI + scanIn.hop
  /\ UNCHANGED <<scanPc, scanIn>>
  /\ UNCHANGED nonScanVars

\* line 224: the loop condition fails
ScanStop ==
  /\ scanPc = "loop"
  /\ ~ScanContinues(scanI, scanIn.frameSize, Len(scanIn.samples))
  /\ scanPc' = "done"
  /\ UNCHANGED <<scanIn, scanI, outFrames, yinCalls>>
  /\ UNCHANGED nonScanVars

ScanNext ==
  \/ ScanWindow
  \/ ScanStop

SpecScan == ScanInit /\ [][ScanNext]_vars

(***************************************************************************)
(* Properties of the frame scan                                            *)
(***************************************************************************)
ScanDone == scanPc = "done"

\* the window starts k*hop at which a full window fits
FullWindowStarts ==
  {i \in 0..Len(scanIn.samples) :
     i % scanIn.hop = 0 /\ i + scanIn.frameSize <= Len(scanIn.samples)}

\* C5: the scan emits exactly one frame for every window start i = k*hop
\* at which a full window fits (i + frameSize <= number of samples), in
\* increasing order with time = i / sampleRate, and nothing for a trailing
\* partial window.
C5_OneFramePerFullWindow ==
  ScanDone =>
    /\ Len(outFrames) = Cardinality(FullWindowStarts)
    /\ \A k \in 1..Len(outFrames) :
         /\ (k - 1) * scanIn.hop \in FullWindowStarts
         /\ outFrames[k].t[1] * scanIn.sampleRate
              = (k - 1) * scanIn.hop * outFrames[k].t[2]

\* the window behind the k-th frame, and its mean square against the gate
FrameStart(k) == (k - 1) * scanIn.hop
SumSquares(w) == SumTo([j \in 1..Len(w) |-> w[j] * w[j]], Len(w))
Quiet(w) ==
  SumSquares(w) * SilenceGate[2] * SilenceGate[2]
    < Len(w) * SampleScale * SampleScale * SilenceGate[1] * SilenceGate[1]
EnergyOf(w) == Frac(SumSquares(w), Len(w) * SampleScale * SampleScale)

\* C14 as claimed: a window whose rms is below the silence gate (every
\* all-zero window) gives a frame with no f0, confidence 0 and the measured
\* energy, and yinPitch is not called for it; any other window gives a frame
\* that carries yinPitch's f0 and confidence and the measured energy.
C14_GateBeforeEstimator ==
  \A k \in 1..Len(outFrames) :
    LET w == WindowAt(scanIn, FrameStart(k))
        y == yinPitch(w, scanIn.sampleRate, scanIn.fMin, scanIn.fMax,
                      ScanThreshold)
    IN  /\ outFrames[k].rms2 = EnergyOf(w)
        /\ (\A j \in 1..Len(w) : w[j] = 0) => Quiet(w)
        /\ Quiet(w) =>
             /\ outFrames[k].f0 = NULL /\ outFrames[k].conf = FZero
             /\ FrameStart(k) \notin yinCalls
        /\ ~Quiet(w) =>
             /\ outFrames[k].f0 = y.f0 /\ outFrames[k].conf = y.confidence
             /\ FrameStart(k) \in yinCalls

\* a silent window that yinPitch would have given a pitch, and a loud one
\* with the estimator's pitch, were both scanned
C14_Witness ==
  /\ ScanDone
  /\ \E a, b \in 1..Len(outFrames) :
       /\ \A j \in 1..scanIn.frameSize : WindowAt(scanIn, FrameStart(a))[j] = 0
       /\ outFrames[a].f0 = NULL
       /\ yinPitch(WindowAt(scanIn, FrameStart(a)), scanIn.sampleRate,
                   scanIn.fMin, scanIn.fMax, ScanThreshold).f0 # NULL
       /\ outFrames[b].f0 # NULL /\ FrameStart(b) \in yinCalls

(***************************************************************************)
(* quantizeNotes (src/pages/index.tsx lines 577-593).  Times are exact     *)
(* fractions of 1/TimeDen second, so that t / step is an exact ratio and   *)
(* Math.round rounds its halves up.                                        *)
(***************************************************************************)
QuantizeGrids == {"off", "1/8", "1/16"}

\* line 583
div(grid) == IF grid = "1/8" THEN 2 ELSE 4

\* lines 580-584: step = (1 / (bpm / 60)) / div
step(bpm, grid) == Frac(60 * TimeDen, bpm * div(grid))

\* line 586: Math.round(t / step)
StepsOf(t, bpm, grid) == RoundDiv(t[1] * bpm * div(grid), t[2] * 60 * TimeDen)

\* line 586: k * step
TimeOfSteps(k, bpm, grid) == Frac(k * 60 * TimeDen, bpm * div(grid))

\* lines 589-591: s = q(n.start), e = max(s + step, q(n.end))
QuantizeNote(n, bpm, grid) ==
  LET ks == StepsOf(n.start, bpm, grid)
      ke == Max(ks + 1, StepsOf(n.end, bpm, grid))
  IN  [n EXCEPT !.start = TimeOfSteps(ks, bpm, grid),
                !.end = TimeOfSteps(ke, bpm, grid)]

quantizeNotes(ns, bpm, grid) ==
  IF grid = "off" THEN ns
  ELSE [k \in 1..Len(ns) |-> QuantizeNote(ns[k], bpm, grid)]

(***************************************************************************)
(* Inputs of quantizeNotes: the BPM field allows 40..240 (lines 453-458,   *)
(* default 120); the notes are lists of the analysis, times in 1/TimeDen s *)
(***************************************************************************)
MaxQuantNotes == 2
QuantTimes == {0, 100, 170, 300, 800}
QuantPitches == {60, 62}
QuantBpms == {40, 120, 240}

QuantNotes ==
  { Note(<<iv[1], 1>>, <<iv[2], 1>>, m, 90) :
      iv \in { x \in QuantTimes \X QuantTimes : x[1] < x[2] },
      m \in QuantPitches }

QuantNoteLists ==
  UNION { [1..n -> QuantNotes] : n \in 0..MaxQuantNotes }

QuantInit ==
  /\ OthersIdle("quant")
  /\ quantPc = "start"
  /\ quantIn \in [notes : QuantNoteLists, bpm : QuantBpms, grid : QuantizeGrids]
  /\ quantI = 0
  /\ quantOut = <<>>

\* line 578
QuantOff ==
  /\ quantPc = "start" /\ quantIn.grid = "off"
  /\ quantOut' = quantIn.notes
  /\ quantPc' = "done"
  /\ UNCHANGED <<quantIn, quantI>>
  /\ UNCHANGED nonQuantVars

\* lines 580-586
QuantStart ==
  /\ quantPc = "start" /\ quantIn.grid # "off"
  /\ quantPc' = "map"
  /\ quantI' = 1
  /\ UNCHANGED <<quantIn, quantOut>>
  /\ UNCHANGED nonQuantVars

\* lines 588-592, one note
QuantMapNote ==
  /\ quantPc = "map" /\ quantI <= Len(quantIn.notes)
  /\ quantOut' = Append(quantOut,
                        QuantizeNote(quantIn.notes[quantI], quantIn.bpm, quantIn.grid))
  /\ quantI' = quantI + 1
  /\ UNCHANGED <<quantPc, quantIn>>
  /\ UNCHANGED nonQuantVars

\* line 588: map returns
QuantReturn ==
  /\ quantPc = "map" /\ quantI > Len(quantIn.notes)
  /\ quantPc' = "done"
  /\ UNCHANGED <<quantIn, quantI, quantOut>>
  /\ UNCHANGED nonQuantVars

QuantNext == QuantOff \/ QuantStart \/ QuantMapNote \/ QuantReturn

SpecQuant == QuantInit /\ [][QuantNext]_vars

(***************************************************************************)
(* Properties of quantizeNotes                                             *)
(***************************************************************************)
QuantDone == quantPc = "done"

TimeOrdered(ns) ==
  \A k \in 1..(Len(ns) - 1) : ~FLess(ns[k + 1].start, ns[k].start)

TimeEndAfterStart(ns) ==
  \A k \in 1..Len(ns) : FLess(ns[k].start, ns[k].end)

TimeOverlap(a, b) == FLess(a.start, b.end) /\ FLess(b.start, a.end)

TimeNoSamePitchOverlap(ns) ==
  \A i \in 1..Len(ns) : \A j \in 1..Len(ns) :
    (i < j /\ ns[i].midi = ns[j].midi) => ~TimeOverlap(ns[i], ns[j])

NoteSequenceInvariant(ns) ==
  TimeOrdered(ns) /\ TimeEndAfterStart(ns) /\ TimeNoSamePitchOverlap(ns)

KeepsCountPitchVelocity ==
  /\ Len(quantOut) = Len(quantIn.notes)
  /\ \A k \in 1..Len(quantOut) :
       /\ quantOut[k].midi = quantIn.notes[k].midi
       /\ quantOut[k].velocity = quantIn.notes[k].velocity

\* C22: quantizeNotes keeps count, pitch and velocity of every note, and
\* whenever its input is ordered by non-decreasing start with end > start
\* and no two same-pitch notes overlapping, so is its output.
C22_QuantizePreservesInvariant ==
  QuantDone =>
    /\ KeepsCountPitchVelocity
    /\ NoteSequenceInvariant(quantIn.notes) => NoteSequenceInvariant(quantOut)

(***************************************************************************)
(* The page (Home, src/pages/index.tsx): recording, analysis requests and  *)
(* playback.  A click handler runs to its first await in one step; what    *)
(* follows an await is the step of the event that resumes it.  Every       *)
(* MediaRecorder, stream and interval that startRecording creates carries  *)
(* the number of its call; an analysis result is named by the blob it was  *)
(* computed from (the computation itself is the scan and framesToNotes     *)
(* above).  status, the text shown to the user, is left out.               *)
(***************************************************************************)
MaxRecordings == 2
MaxAnalyses == 2
\* MAX_RECORD_SECONDS (line 13) in ticks of the interval, scaled down from 100
MaxRecordTicks == 3
\* the uploaded files; file f decodes to a melody of f notes
Files == {1, 2}
FileBlob(f) == <<"file", f>>
RecordingBlob(r) == <<"rec", r>>
NoteCount(blob) == IF blob[1] = "file" THEN blob[2] ELSE 1
DefaultInstrument == "acoustic_grand_piano"

recordingVars ==
  <<mediaRecRef, streamRef, timerRef, userMedia, recorder, liveStreams, intervals>>
playbackVars == <<isPlaying, playingNodesRef, playOffset, scheduledNodes>>
instrumentVars ==
  <<instrumentName, instrumentRef, loadingInstrumentRef, loads, plays, timeouts>>

\* lines 15-48: the state after the first render
PageInit ==
  /\ uiPc = "on" /\ mode = "idle" /\ uiFrames = NULL /\ uiNotes = NULL
  /\ recordedBlob = NULL /\ elapsed = 0
  /\ mediaRecRef = 0 /\ streamRef = 0 /\ timerRef = 0
  /\ userMedia = <<>> /\ recorder = <<>> /\ liveStreams = {} /\ intervals = {}
  /\ analyses = <<>> /\ latest = 0
  /\ isPlaying = FALSE /\ playingNodesRef = {} /\ playOffset = 0
  /\ scheduledNodes = {} /\ instrumentName = DefaultInstrument
  /\ instrumentRef = NULL /\ loadingInstrumentRef = 0
  /\ loads = <<>> /\ plays = <<>> /\ timeouts = {}

\* lines 294-307, with the value playOffsetRef is left with
StopPlaybackAt(off) ==
  /\ scheduledNodes' = scheduledNodes \ playingNodesRef
  /\ playingNodesRef' = {}
  /\ isPlaying' = FALSE
  /\ playOffset' = off

stopPlayback(resetOffset) ==
  StopPlaybackAt(IF resetOffset THEN 0 ELSE playOffset)

\* lines 180-189
clearRecording ==
  /\ stopPlayback(TRUE)
  /\ recordedBlob' = NULL
  /\ uiFrames' = NULL
  /\ uiNotes' = NULL
  /\ elapsed' = 0

\* lines 158-178
stopRecording(force) ==
  /\ recorder' = IF mediaRecRef # 0 /\ recorder[mediaRecRef] = "recording"
                 THEN [recorder EXCEPT ![mediaRecRef] = "stopping"]
                 ELSE recorder
  /\ mediaRecRef' = 0
  /\ intervals' = intervals \ {timerRef}
  /\ timerRef' = 0
  /\ liveStreams' = IF force THEN liveStreams \ {streamRef} ELSE liveStreams
  /\ streamRef' = IF force THEN 0 ELSE streamRef
  /\ mode' = "idle"

\* lines 202-208: analyzeBlob up to its await
StartAnalysis(blob) ==
  /\ Len(analyses) < MaxAnalyses
  /\ analyses' = Append(analyses, [blob |-> blob, state |-> "pending"])
  /\ latest' = Len(analyses) + 1

\* line 391 with mode # "recording": startRecording, lines 85-96
ClickRecord ==
  /\ uiPc = "on" /\ mode # "recording"
  /\ Len(userMedia) < MaxRecordings
  /\ clearRecording
  /\ latest' = 0
  /\ userMedia' = Append(userMedia, "pending")
  /\ recorder' = Append(recorder, "none")
  /\ UNCHANGED <<uiPc, mode, mediaRecRef, streamRef, timerRef, liveStreams,
                 intervals, analyses, instrumentVars>>
  /\ UNCHANGED nonUiVars

\* lines 98-151: getUserMedia resolved, the rest of startRecording
GetUserMediaResolve(r) ==
  /\ uiPc = "on" /\ userMedia[r] = "pending"
  /\ userMedia' = [userMedia EXCEPT ![r] = "settled"]
  /\ streamRef' = r
  /\ liveStreams' = liveStreams \cup {r}
  /\ mediaRecRef' = r
  /\ recorder' = [recorder EXCEPT ![r] = "recording"]
  /\ elapsed' = 0
  /\ mode' = "recording"
  /\ timerRef' = r
  /\ intervals' = intervals \cup {r}
  /\ UNCHANGED <<uiPc, uiFrames, uiNotes, recordedBlob, analyses, latest,
                 playbackVars, instrumentVars>>
  /\ UNCHANGED nonUiVars

\* lines 152-155: getUserMedia rejected
GetUserMediaReject(r) ==
  /\ uiPc = "on" /\ userMedia[r] = "pending"
  /\ userMedia' = [userMedia EXCEPT ![r] = "settled"]
  /\ mode' = "idle"
  /\ UNCHANGED <<uiPc, uiFrames, uiNotes, recordedBlob, elapsed, mediaRecRef,
                 streamRef, timerRef, recorder, liveStreams, intervals,
                 analyses, latest, playbackVars, instrumentVars>>
  /\ UNCHANGED nonUiVars

\* line 391 with mode = "recording": stopRecording(false)
ClickStop ==
  /\ uiPc = "on" /\ mode = "recording"
  /\ stopRecording(FALSE)
  /\ UNCHANGED <<uiPc, uiFrames, uiNotes, recordedBlob, elapsed, userMedia,
                 analyses, latest, playbackVars, instrumentVars>>
  /\ UNCHANGED nonUiVars

\* lines 142-151: a tick of interval i
Tick(i) ==
  /\ uiPc = "on" /\ i \in intervals
  /\ IF elapsed + 1 >= MaxRecordTicks
     THEN /\ stopRecording(FALSE)
          /\ elapsed' = MaxRecordTicks
     ELSE /\ elapsed' = elapsed + 1
          /\ UNCHANGED <<mode, mediaRecRef, streamRef, timerRef, recorder,
                         liveStreams, intervals>>
  /\ UNCHANGED <<uiPc, uiFrames, uiNotes, recordedBlob, userMedia,
                 analyses, latest, playbackVars, instrumentVars>>
  /\ UNCHANGED nonUiVars

\* lines 113-133: the stop event of recorder r; enough is whether the
\* blob reaches 1500 bytes
OnStop(r, enough) ==
  /\ uiPc = "on" /\ recorder[r] = "stopping"
  /\ recorder' = [recorder EXCEPT ![r] = "inactive"]
  /\ liveStreams' = liveStreams \ {r}
  /\ streamRef' = 0
  /\ intervals' = intervals \ {timerRef}
  /\ timerRef' = 0
  /\ recordedBlob' = IF enough THEN Some(RecordingBlob(r)) ELSE recordedBlob
  /\ mode' = "idle"
  /\ UNCHANGED <<uiPc, uiFrames, uiNotes, elapsed, mediaRecRef, userMedia,
                 analyses, latest, playbackVars, instrumentVars>>
  /\ UNCHANGED nonUiVars

\* line 405, lines 191-195: handleUpload, up to the await of analyzeBlob
ClickUpload(f) ==
  /\ uiPc = "on"
  /\ clearRecording
  /\ StartAnalysis(FileBlob(f))
  /\ UNCHANGED <<uiPc, mode, recordingVars, instrumentVars>>
  /\ UNCHANGED nonUiVars

\* line 420, lines 197-200: analyzeRecorded, up to the await of analyzeBlob
ClickAnalyzeRecorded ==
  /\ uiPc = "on" /\ recordedBlob # NULL
  /\ stopPlayback(TRUE)
  /\ uiFrames' = NULL
  /\ uiNotes' = NULL
  /\ StartAnalysis(Val(recordedBlob))
  /\ UNCHANGED <<uiPc, mode, recordedBlob, elapsed, recordingVars, instrumentVars>>
  /\ UNCHANGED nonUiVars

\* line 412: Refresh / Re-record
ClickRefresh ==
  /\ uiPc = "on"
  /\ clearRecording
  /\ latest' = 0
  /\ UNCHANGED <<uiPc, mode, recordingVars, analyses, instrumentVars>>
  /\ UNCHANGED nonUiVars

\* lines 208-257: the decode of analysis k resolved, the rest of analyzeBlob
DecodeDone(k) ==
  /\ uiPc = "on" /\ analyses[k].state = "pending"
  /\ analyses' = [analyses EXCEPT ![k].state = "done"]
  /\ uiFrames' = Some(analyses[k].blob)
  /\ uiNotes' = Some(analyses[k].blob)
  /\ mode' = "analyzed"
  /\ playOffset' = 0
  /\ UNCHANGED <<uiPc, recordedBlob, elapsed, recordingVars, latest, isPlaying,
                 playingNodesRef, scheduledNodes, instrumentVars>>
  /\ UNCHANGED nonUiVars

\* line 208: the decode of analysis k rejected, analyzeBlob throws
DecodeFail(k) ==
  /\ uiPc = "on" /\ analyses[k].state = "pending"
  /\ analyses' = [analyses EXCEPT ![k].state = "failed"]
  /\ UNCHANGED <<uiPc, mode, uiFrames, uiNotes, recordedBlob, elapsed,
                 recordingVars, latest, playbackVars, instrumentVars>>
  /\ UNCHANGED nonUiVars

CaptureNext ==
  \/ ClickRecord
  \/ \E r \in 1..MaxRecordings : r <= Len(userMedia) /\ GetUserMediaResolve(r)
  \/ \E r \in 1..MaxRecordings : r <= Len(userMedia) /\ GetUserMediaReject(r)
  \/ ClickStop
  \/ \E i \in 1..MaxRecordings : Tick(i)
  \/ \E r \in 1..MaxRecordings : \E enough \in BOOLEAN :
       r <= Len(recorder) /\ OnStop(r, enough)
  \/ \E f \in Files : ClickUpload(f)
  \/ ClickAnalyzeRecorded
  \/ ClickRefresh
  \/ \E k \in 1..MaxAnalyses : k <= Len(analyses) /\ DecodeDone(k)
  \/ \E k \in 1..MaxAnalyses : k <= Len(analyses) /\ DecodeFail(k)

CaptureInit == OthersIdle("ui") /\ PageInit

SpecCapture == CaptureInit /\ [][CaptureNext]_vars

(***************************************************************************)
(* Properties of recording                                                 *)
(***************************************************************************)
Recording == { r \in 1..Len(recorder) : recorder[r] = "recording" }

\* C23: whenever a MediaRecorder started by startRecording is still
\* recording, mode is "recording" and the interval that timerRef names is
\* running, and elapsed has not reached the maximum.
C23_RecordingHasModeAndTimer ==
  \A r \in Recording :
    /\ mode = "recording"
    /\ timerRef # 0 /\ timerRef \in intervals
    /\ elapsed < MaxRecordTicks

\* nothing of an earlier recording is left: no request pending, no stop
\* event outstanding, no recorder referenced
RecordingOver ==
  /\ mediaRecRef = 0
  /\ \A r \in 1..Len(userMedia) :
       userMedia[r] = "settled" /\ recorder[r] \in {"none", "inactive"}

\* C24: at most one recorder is recording, one stream live and one
\* interval running, each of them the one its ref names; and once
\* stopRecording and the stop events have run, none is left.
C24_OneLiveRecording ==
  /\ Cardinality(Recording) <= 1
  /\ Cardinality(liveStreams) <= 1
  /\ Cardinality(intervals) <= 1
  /\ \A r \in Recording : mediaRecRef = r
  /\ \A r \in liveStreams : streamRef = r
  /\ \A i \in intervals : timerRef = i
  /\ (mediaRecRef = 0 /\ \A r \in 1..Len(recorder) : recorder[r] # "stopping")
       => (Recording = {} /\ liveStreams = {} /\ intervals = {})

(***************************************************************************)
(* Properties of the analysis requests                                     *)
(***************************************************************************)
NoAnalysisPending ==
  \A k \in 1..Len(analyses) : analyses[k].state # "pending"

\* what analysis k leaves on the page by itself
ResultOf(k) ==
  IF analyses[k].state = "done" THEN Some(analyses[k].blob) ELSE NULL

\* C27: once no analysis is pending, frames and notes are the result of
\* the most recently requested analysis, or empty if clearRecording was
\* requested after it.
C27_LatestRequestDisplayed ==
  NoAnalysisPending =>
    LET expected == IF latest = 0 THEN NULL ELSE ResultOf(latest)
    IN  uiFrames = expected /\ uiNotes = expected

(***************************************************************************)
(* Playback (index.tsx lines 268-363).  Every note lasts one unit of time, *)
(* so a melody of n notes has pieceDuration n and note k sounds from k - 1 *)
(* to k.  A node is <<p, k>>: note k as scheduled by the p-th call of      *)
(* play().  A function of a render sees the state of that render: play()   *)
(* keeps the notes, pieceDuration, instrumentName and isPlaying of the     *)
(* render whose button was clicked, across its await and in its timeout.   *)
(***************************************************************************)
MaxPlays == 3
Instruments == {DefaultInstrument, "violin"}
\* the seconds between play() and a click on Pause
PauseDelays == 0..2

\* lines 50-53: pieceDuration of the current render
pieceDuration == IF uiNotes = NULL THEN 0 ELSE NoteCount(Val(uiNotes))

\* lines 318-333: the nodes of call p, given what playOffsetRef holds
NodesOf(p, notesOfP, off) ==
  LET duration == NoteCount(notesOfP)
      playFrom == Max(0, Min(off, duration))
  IN  { <<p, k>> : k \in (playFrom + 1)..duration }

\* the calls of play() that wait for load l, in the order they began to wait
Awaiting(l) ==
  { p \in 1..Len(plays) : plays[p].state = "awaiting" /\ plays[p].load = l }

\* lines 318-346 for each call of the set ps in turn: every call schedules
\* its nodes and the last one's are left in playingNodesRef
ScheduleAll(ps) ==
  LET nodes(p) == NodesOf(p, plays[p].notes, playOffset)
      last == CHOOSE p \in ps : \A o \in ps : o <= p
  IN  /\ scheduledNodes' = scheduledNodes \cup UNION { nodes(p) : p \in ps }
      /\ playingNodesRef' = nodes(last)
      /\ isPlaying' = TRUE
      /\ timeouts' = timeouts \cup ps

\* lines 284-286 for the waiting calls ws in turn: each starts a load of
\* its own instrument and puts it in loadingInstrumentRef
RECURSIVE NewLoads(_, _)
NewLoads(ws, ls) ==
  IF ws = {} THEN ls
  ELSE LET w == CHOOSE p \in ws : \A o \in ws : p <= o
       IN  NewLoads(ws \ {w}, Append(ls, [name |-> plays[w].name, state |-> "pending"]))

\* the load that call w of ws got from NewLoads
LoadOf(w, ws) == Len(loads) + Cardinality({ o \in ws : o <= w })

\* line 502 with isPlaying false: play(), lines 309-316, and getInstrument
\* up to its first await (lines 274-286); with the instrument cached there
\* is nothing to wait for and play() runs to its end (lines 318-346)
ClickPlay ==
  /\ uiPc = "on" /\ uiNotes # NULL /\ ~isPlaying
  /\ Len(plays) < MaxPlays
  /\ LET p == Len(plays) + 1
         call == [name |-> instrumentName, notes |-> Val(uiNotes),
                  closureIsPlaying |-> isPlaying, load |-> 0, state |-> "awaiting"]
     IN  IF instrumentRef = Some(instrumentName)
         THEN /\ plays' = Append(plays, [call EXCEPT !.state = "scheduled"])
              /\ scheduledNodes' =
                   (scheduledNodes \ playingNodesRef) \cup NodesOf(p, call.notes, playOffset)
              /\ playingNodesRef' = NodesOf(p, call.notes, playOffset)
              /\ isPlaying' = TRUE
              /\ timeouts' = timeouts \cup {p}
              /\ UNCHANGED <<playOffset, loads, loadingInstrumentRef>>
         ELSE /\ stopPlayback(FALSE)
              /\ IF loadingInstrumentRef # 0
                 THEN /\ plays' = Append(plays,
                           IF loads[loadingInstrumentRef].state = "rejected"
                           THEN [call EXCEPT !.state = "failed"]
                           ELSE [call EXCEPT !.load = loadingInstrumentRef])
                      /\ UNCHANGED <<loads, loadingInstrumentRef>>
                 ELSE /\ loads' = Append(loads, [name |-> instrumentName, state |-> "pending"])
                      /\ loadingInstrumentRef' = Len(loads) + 1
                      /\ plays' = Append(plays, [call EXCEPT !.load = Len(loads) + 1])
              /\ UNCHANGED timeouts
  /\ UNCHANGED <<uiPc, mode, uiFrames, uiNotes, recordedBlob, elapsed,
                 recordingVars, analyses, latest, instrumentName, instrumentRef>>
  /\ UNCHANGED nonUiVars

\* load l resolved.  The call that started it resumes first (lines 286-291),
\* then the calls that waited at line 280: those of the same instrument
\* return it (line 281), the others start a load of their own (lines
\* 284-286); then every play() that got its instrument runs lines 318-346.
LoadResolve(l) ==
  /\ uiPc = "on" /\ loads[l].state = "pending"
  /\ LET same == { p \in Awaiting(l) : plays[p].name = loads[l].name }
         others == Awaiting(l) \ same
     IN  /\ instrumentRef' = Some(loads[l].name)
         /\ loads' = [NewLoads(others, loads) EXCEPT ![l].state = "resolved"]
         /\ loadingInstrumentRef' =
              IF others = {} THEN 0 ELSE Len(loads) + Cardinality(others)
         /\ plays' = [p \in 1..Len(plays) |->
                        IF p \in same THEN [plays[p] EXCEPT !.state = "scheduled"]
                        ELSE IF p \in others
                             THEN [plays[p] EXCEPT !.load = LoadOf(p, others)]
                             ELSE plays[p]]
         /\ IF same = {}
            THEN UNCHANGED <<scheduledNodes, playingNodesRef, isPlaying, timeouts>>
            ELSE ScheduleAll(same)
  /\ UNCHANGED <<uiPc, mode, uiFrames, uiNotes, recordedBlob, elapsed,
                 recordingVars, analyses, latest, playOffset, instrumentName>>
  /\ UNCHANGED nonUiVars

\* load l rejected: every await of it throws (lines 280, 286) and
\* loadingInstrumentRef keeps the rejected promise
LoadReject(l) ==
  /\ uiPc = "on" /\ loads[l].state = "pending"
  /\ loads' = [loads EXCEPT ![l].state = "rejected"]
  /\ plays' = [p \in 1..Len(plays) |->
                 IF p \in Awaiting(l) THEN [plays[p] EXCEPT !.state = "failed"]
                 ELSE plays[p]]
  /\ UNCHANGED <<uiPc, mode, uiFrames, uiNotes, recordedBlob, elapsed,
                 recordingVars, analyses, latest, playbackVars, instrumentName,
                 instrumentRef, loadingInstrumentRef, timeouts>>
  /\ UNCHANGED nonUiVars

\* lines 341-346: the timeout of call p fires
TimeoutFire(p) ==
  /\ uiPc = "on" /\ p \in timeouts
  /\ timeouts' = timeouts \ {p}
  /\ IF ~plays[p].closureIsPlaying
     THEN UNCHANGED playbackVars
     ELSE stopPlayback(TRUE)
  /\ UNCHANGED <<uiPc, mode, uiFrames, uiNotes, recordedBlob, elapsed,
                 recordingVars, analyses, latest, instrumentName, instrumentRef,
                 loadingInstrumentRef, loads, plays>>
  /\ UNCHANGED nonUiVars

\* line 502 with isPlaying true: pause(), lines 349-357
ClickPause(elapsedWall) ==
  /\ uiPc = "on" /\ uiNotes # NULL /\ isPlaying
  /\ StopPlaybackAt(Min(pieceDuration, playOffset + elapsedWall))
  /\ UNCHANGED <<uiPc, mode, uiFrames, uiNotes, recordedBlob, elapsed,
                 recordingVars, analyses, latest, instrumentVars>>
  /\ UNCHANGED nonUiVars

\* line 510: stop(), lines 359-363
ClickStopPlayback ==
  /\ uiPc = "on" /\ uiNotes # NULL
  /\ stopPlayback(TRUE)
  /\ UNCHANGED <<uiPc, mode, uiFrames, uiNotes, recordedBlob, elapsed,
                 recordingVars, analyses, latest, instrumentVars>>
  /\ UNCHANGED nonUiVars

\* line 474 and the effect of lines 76-83
ChangeInstrument(name) ==
  /\ uiPc = "on" /\ name # instrumentName
  /\ instrumentName' = name
  /\ IF isPlaying THEN stopPlayback(FALSE) ELSE UNCHANGED playbackVars
  /\ UNCHANGED <<uiPc, mode, uiFrames, uiNotes, recordedBlob, elapsed,
                 recordingVars, analyses, latest, instrumentRef,
                 loadingInstrumentRef, loads, plays, timeouts>>
  /\ UNCHANGED nonUiVars

PlayNext ==
  \/ ClickPlay
  \/ \E l \in 1..MaxPlays : l <= Len(loads) /\ LoadResolve(l)
  \/ \E l \in 1..MaxPlays : l <= Len(loads) /\ LoadReject(l)
  \/ \E p \in 1..MaxPlays : TimeoutFire(p)
  \/ \E elapsedWall \in PauseDelays : ClickPause(elapsedWall)
  \/ ClickStopPlayback
  \/ \E name \in Instruments : ChangeInstrument(name)

\* the page after the analysis of an uploaded file
PlayInit ==
  /\ OthersIdle("ui")
  /\ \E f \in Files :
       /\ uiFrames = Some(FileBlob(f)) /\ uiNotes = Some(FileBlob(f))
       /\ analyses = <<[blob |-> FileBlob(f), state |-> "done"]>>
  /\ uiPc = "on" /\ mode = "analyzed" /\ latest = 1
  /\ recordedBlob = NULL /\ elapsed = 0
  /\ mediaRecRef = 0 /\ streamRef = 0 /\ timerRef = 0
  /\ userMedia = <<>> /\ recorder = <<>> /\ liveStreams = {} /\ intervals = {}
  /\ isPlaying = FALSE /\ playingNodesRef = {} /\ playOffset = 0
  /\ scheduledNodes = {} /\ instrumentName = DefaultInstrument
  /\ instrumentRef = NULL /\ loadingInstrumentRef = 0
  /\ loads = <<>> /\ plays = <<>> /\ timeouts = {}

SpecPlay == PlayInit /\ [][PlayNext]_vars

\* the browser runs a timeout that is due
SpecPlayFair ==
  PlayInit /\ [][PlayNext]_vars /\ WF_vars(\E p \in 1..MaxPlays : TimeoutFire(p))

(***************************************************************************)
(* Properties of playback                                                  *)
(***************************************************************************)
\* C25: every scheduled node that has not been stopped is in
\* playingNodesRef, and the scheduled nodes are those of at most one call
\* of play().
C25_NoOverlappingPlayback ==
  /\ scheduledNodes \subseteq playingNodesRef
  /\ Cardinality({ n[1] : n \in scheduledNodes }) <= 1

\* C26: playback ends by itself: whenever isPlaying is true it becomes
\* false again, by a click or else by the end-of-piece timeout; and when
\* the timeout of the latest call of play() fires while its playback is
\* still on, it sets isPlaying to false, empties playingNodesRef and resets
\* the play offset to 0.
C26_PlaybackEndsByItself ==
  /\ isPlaying ~> ~isPlaying
  /\ [][\A p \in 1..MaxPlays :
          (TimeoutFire(p) /\ isPlaying /\ p = Len(plays))
            => (~isPlaying' /\ playingNodesRef' = {} /\ playOffset' = 0)]_vars

====
